---------------------------- MODULE Spec2Model ----------------------------
(***************************************************************************)
(* A model of the 1y interpreter: the lexer (Lexer.NextToken), the parser  *)
(* (Parser.ParseProgram), the environment (object.Environment) and the     *)
(* tree-walking evaluator (evaluator.Eval).                                 *)
(*                                                                         *)
(* Go objects are pointers.  The model keeps the heaps the evaluator       *)
(* writes through: `frames` (the *object.Environment structs), `cells`     *)
(* (the *big.Int structs) and `heap` (the *object.Array structs, the       *)
(* backing arrays of their Elements slices and the *object.Hash structs).  *)
(* An object.Integer holds a pointer to a cell; the parser allocates one   *)
(* cell per integer literal of the source, and Eval of an IntegerLiteral   *)
(* wraps that very cell.                                                    *)
(***************************************************************************)
EXTENDS Integers, Sequences, FiniteSets, TLC

VARIABLES
    \* ---- repl.Start / repl.StartWithString: lex, parse and evaluate the
    \* ---- lines of the input one after the other in one environment
    prog,        \* the input: family and integers of Lines(prog)
    line,        \* number of the line being executed
    parser,      \* the *Parser
    program,     \* ParseProgram's program.Statements
    pc,          \* index of the next top-level statement of evalProgram's loop
    status,      \* "run" | "rejected" (parser errors) | "done" | "panic" |
                 \* "cut" (a loop ran past MaxLoop); "idle" when not in use
    frames,      \* heap of *object.Environment: [store, outer]
    cells,       \* heap of *big.Int
    heap,        \* [arrays, backs, hashes]: the *object.Array structs (their
                 \* Elements slice headers), the backing arrays of the slices
                 \* and the *object.Hash structs (their Pairs)
    result,      \* evalProgram's `result` (an object)
    hist,        \* Inspect() of each top-level statement's result, as it was returned
    out,         \* what StartWithString wrote to its io.Writer
    \* ---- integer division (evalIntegerInfixExpression on two Integers)
    ax, ay,      \* the two operands
    aq, am,      \* the results of ax / ay and ax % ay
    \* ---- lexer (a caller draining Lexer.NextToken)
    lexer,       \* the *Lexer: [input, position, readPosition, ch, inComment]
    toks,        \* the tokens NextToken has returned, in order
    recon        \* skipped text and token literals, concatenated in order

evalVars  == <<prog, line, parser, program, pc, status, frames, cells, heap, result,
               hist, out>>
arithVars == <<ax, ay, aq, am>>
lexVars   == <<lexer, toks, recon>>
vars == <<evalVars, arithVars, lexVars>>

-----------------------------------------------------------------------------
(* Bounds of the model *)

MaxArg == 4        \* integer parameters of the programs range over 0..MaxArg
MaxFib == 3        \* arguments of the recursive function range over 0..MaxFib
MaxInt == 7        \* operands of the division check range over -MaxInt..MaxInt
MaxLoop == 12      \* iterations of one while statement
MaxLexLen == 3     \* length of the inputs handed to the lexer on its own
MaxEof == 2        \* calls of NextToken made after it first returned EOF
MaxPairs == 2      \* pairs of a hash literal
MaxRanges == 1     \* hash literals of several pairs one statement evaluates
MaxComment == 2    \* length of the text of a block comment

-----------------------------------------------------------------------------
(* token, lexer.  A Go string is a sequence of one-character strings; the  *)
(* byte 0 that readChar yields at the end of the input is NUL.  Positions  *)
(* count from 0 as in the source.                                          *)

NUL == ""

Token(type, literal) == [Type |-> type, Literal |-> literal]

\* token.keywords
LookupIdent(ident) ==
    CASE ident = <<"f", "n">>                               -> "FUNCTION"
      [] ident = <<"l", "e", "t">>                          -> "LET"
      [] ident = <<"t", "r", "u", "e">>                     -> "TRUE"
      [] ident = <<"f", "a", "l", "s", "e">>                -> "FALSE"
      [] ident = <<"i", "f">>                               -> "IF"
      [] ident = <<"e", "l", "s", "e">>                     -> "ELSE"
      [] ident = <<"r", "e", "t", "u", "r", "n">>           -> "RETURN"
      [] ident = <<"c", "o", "n", "s", "t">>                -> "CONST"
      [] ident = <<"w", "h", "i", "l", "e">>                -> "WHILE"
      [] ident = <<"f", "o", "r">>                          -> "FOR"
      [] ident = <<"b", "r", "e", "a", "k">>                -> "BREAK"
      [] ident = <<"c", "o", "n", "t", "i", "n", "u", "e">> -> "CONTINUE"
      [] ident = <<"i", "m", "p", "o", "r", "t">>           -> "IMPORT"
      [] OTHER                                              -> "IDENT"

LowerCase == {"a", "b", "c", "d", "e", "f", "g", "h", "i", "j", "k", "l", "m",
              "n", "o", "p", "q", "r", "s", "t", "u", "v", "w", "x", "y", "z"}
UpperCase == {"A", "B", "C", "D", "E", "F", "G", "H", "I", "J", "K", "L", "M",
              "N", "O", "P", "Q", "R", "S", "T", "U", "V", "W", "X", "Y", "Z"}

isLetter(ch) == ch \in LowerCase \cup UpperCase \cup {"_"}
isDigit(ch)  == ch \in {"0", "1", "2", "3", "4", "5", "6", "7", "8", "9"}

\* input[from:to]
Slice(input, from, to) == SubSeq(input, from + 1, to)

readChar(l) ==
    [l EXCEPT !.ch = IF l.readPosition >= Len(l.input)
                     THEN NUL ELSE l.input[l.readPosition + 1],
              !.position = l.readPosition,
              !.readPosition = l.readPosition + 1]

peekChar(l) ==
    IF l.readPosition >= Len(l.input) THEN NUL ELSE l.input[l.readPosition + 1]

\* lexer.New
LexerNew(input) ==
    readChar([input |-> input, position |-> 0, readPosition |-> 0,
              ch |-> NUL, inComment |-> FALSE])

RECURSIVE skipMultiLineComment(_)
skipMultiLineComment(l) ==
    IF ~l.inComment THEN l
    ELSE LET l1 == readChar(l)
             l2 == IF l1.ch = "*" /\ peekChar(l1) = "/"
                   THEN [readChar(readChar(l1)) EXCEPT !.inComment = FALSE]
                   ELSE l1
         IN IF l2.ch = NUL
            THEN [l2 EXCEPT !.inComment = FALSE]
            ELSE skipMultiLineComment(l2)

RECURSIVE skipWhitespace(_)
skipWhitespace(l) ==
    IF l.ch \in {" ", "\t", "\n", "\r"} \/ l.inComment
    THEN skipWhitespace(IF l.inComment THEN skipMultiLineComment(l) ELSE readChar(l))
    ELSE l

RECURSIVE skipSingleLineComment(_)
skipSingleLineComment(l) ==
    IF l.ch # "\n" /\ l.ch # NUL THEN skipSingleLineComment(readChar(l)) ELSE l

\* the lexer after the `for isLetter(l.ch)` loop of readIdentifier
RECURSIVE readLetters(_)
readLetters(l) == IF isLetter(l.ch) THEN readLetters(readChar(l)) ELSE l

\* [lit, l]
readIdentifier(l) ==
    LET l1 == readLetters(l)
    IN [lit |-> Slice(l.input, l.position, l1.position), l |-> l1]

RECURSIVE readDigits(_)
readDigits(l) == IF isDigit(l.ch) THEN readDigits(readChar(l)) ELSE l

\* the loop of readFloatFromPosition: [l, ok], ok false where the source
\* returns "" for an exponent without digits
RECURSIVE readFloatLoop(_)
readFloatLoop(l) ==
    IF isDigit(l.ch) \/ l.ch = "e" \/ l.ch = "E"
    THEN IF l.ch = "e" \/ l.ch = "E"
         THEN LET l1 == readChar(l)
                  l2 == IF l1.ch = "+" \/ l1.ch = "-" THEN readChar(l1) ELSE l1
              IN IF ~isDigit(l2.ch)
                 THEN [l |-> l2, ok |-> FALSE]
                 ELSE readFloatLoop(l2)
         ELSE readFloatLoop(readChar(l))
    ELSE [l |-> l, ok |-> TRUE]

readFloatFromPosition(l, position) ==
    LET r == readFloatLoop(IF l.ch = "." THEN readChar(l) ELSE l)
    IN [lit |-> IF r.ok THEN Slice(l.input, position, r.l.position) ELSE <<>>,
        l |-> r.l]

readNumber(l) ==
    LET l1 == readDigits(l)
    IN IF l1.ch = "." \/ l1.ch = "e" \/ l1.ch = "E"
       THEN readFloatFromPosition(l1, l.position)
       ELSE [lit |-> Slice(l.input, l.position, l1.position), l |-> l1]

\* the lexer after the loop of readString: on the closing quote or at the end
RECURSIVE readStringLoop(_)
readStringLoop(l) ==
    LET l1 == readChar(l)
    IN IF l1.ch = "\"" \/ l1.ch = NUL THEN l1 ELSE readStringLoop(l1)

readString(l) ==
    LET l1 == readStringLoop(l)
    IN [lit |-> Slice(l.input, l.position + 1, l1.position), l |-> l1]

newToken(tokenType, ch) == Token(tokenType, <<ch>>)

\* A token of two characters, the second read now:
\* ch := l.ch; l.readChar(); Token{Type, string(ch) + string(l.ch)}
TwoChar(l, type) ==
    LET l1 == readChar(l) IN [tok |-> Token(type, <<l.ch, l1.ch>>), l |-> l1]

One(l, type) == [tok |-> newToken(type, l.ch), l |-> l]

\* The switch of NextToken on l.ch for the operators and delimiters:
\* [tok, l], l being the lexer before the final readChar.
OperatorToken(l) ==
    LET ch == l.ch
        pk == peekChar(l)
    IN CASE ch = "=" -> IF pk = "=" THEN TwoChar(l, "==") ELSE One(l, "=")
         [] ch = "+" -> IF pk = "=" THEN TwoChar(l, "+=")
                        ELSE IF pk = "+" THEN TwoChar(l, "++") ELSE One(l, "+")
         [] ch = "-" -> IF pk = "=" THEN TwoChar(l, "-=")
                        ELSE IF pk = "-" THEN TwoChar(l, "--") ELSE One(l, "-")
         [] ch = "!" -> IF pk = "=" THEN TwoChar(l, "!=") ELSE One(l, "!")
         [] ch = "/" -> IF pk = "=" THEN TwoChar(l, "/=") ELSE One(l, "/")
         [] ch = "*" -> IF pk = "=" THEN TwoChar(l, "*=")
                        ELSE IF pk = "*" THEN TwoChar(l, "**") ELSE One(l, "*")
         [] ch = "%" -> IF pk = "=" THEN TwoChar(l, "%=") ELSE One(l, "%")
         [] ch = ";" -> One(l, ";")
         [] ch = "," -> One(l, ",")
         [] ch = "(" -> One(l, "(")
         [] ch = ")" -> One(l, ")")
         [] ch = "{" -> One(l, "{")
         [] ch = "}" -> One(l, "}")
         [] ch = "[" -> One(l, "[")
         [] ch = "]" -> One(l, "]")
         [] ch = ":" -> One(l, ":")
         [] ch = "&" -> IF pk = "&" THEN TwoChar(l, "&&")
                        ELSE IF pk = "=" THEN TwoChar(l, "&=") ELSE One(l, "&")
         [] ch = "|" -> IF pk = "|" THEN TwoChar(l, "||")
                        ELSE IF pk = "=" THEN TwoChar(l, "|=") ELSE One(l, "|")
         [] ch = "^" -> IF pk = "=" THEN TwoChar(l, "^=") ELSE One(l, "^")
         [] ch = "~" -> One(l, "~")
         [] ch = ">" ->
               IF pk = ">"
               THEN LET l1 == readChar(l) IN
                    IF peekChar(l1) = "="
                    THEN LET l2 == readChar(l1)
                         IN [tok |-> Token(">>=", <<ch, l2.ch>>), l |-> l2]
                    ELSE [tok |-> Token(">>", <<ch, l1.ch>>), l |-> l1]
               ELSE IF pk = "=" THEN TwoChar(l, ">=") ELSE One(l, ">")
         [] ch = "<" ->
               IF pk = "<"
               THEN LET l1 == readChar(l) IN
                    IF peekChar(l1) = "="
                    THEN LET l2 == readChar(l1)
                         IN [tok |-> Token("<<=", <<ch, l2.ch>>), l |-> l2]
                    ELSE [tok |-> Token("<<", <<ch, l1.ch>>), l |-> l1]
               ELSE IF pk = "=" THEN TwoChar(l, "<=") ELSE One(l, "<")
         [] ch = "." -> One(l, ".")
         [] OTHER    -> One(l, "ILLEGAL")

\* What NextToken returns is [tok, l, start]: the token, the lexer it leaves
\* and the position of the token's first character (where the lexer stood
\* once it had skipped).
Lexed(tok, l, start) == [tok |-> tok, l |-> l, start |-> start]

\* tok.Literal = l.readString(); tok.Type = token.STRING; then l.readChar()
stringToken(r, start) == Lexed(Token("STRING", r.lit), readChar(r.l), start)

\* tok.Literal = l.readFloatFromPosition(l.position); return tok
floatToken(r, start) == Lexed(Token("FLOAT", r.lit), r.l, start)

\* tok.Literal = l.readIdentifier(); tok.Type = LookupIdent(...); return tok
identifierToken(r, start) == Lexed(Token(LookupIdent(r.lit), r.lit), r.l, start)

\* tok.Literal = l.readNumber(); tok.Type = token.INT; return tok
numberToken(r, start) == Lexed(Token("INT", r.lit), r.l, start)

\* an arm of the switch that falls through to the final l.readChar()
operatorToken(r, start) == Lexed(r.tok, readChar(r.l), start)

RECURSIVE NextToken(_)

\* the switch of NextToken on l.ch, with its return
tokenAt(l) ==
    CASE l.ch = "/" /\ peekChar(l) = "/" ->
                NextToken(skipSingleLineComment(l))
      [] l.ch = "/" /\ peekChar(l) = "*" ->
                NextToken(skipMultiLineComment(
                    readChar(readChar([l EXCEPT !.inComment = TRUE]))))
      [] l.ch = NUL ->
                Lexed(Token("EOF", <<>>), readChar(l), l.position)
      [] l.ch = "\"" -> stringToken(readString(l), l.position)
      [] l.ch = "." /\ isDigit(peekChar(l)) ->
                floatToken(readFloatFromPosition(l, l.position), l.position)
      [] isLetter(l.ch) -> identifierToken(readIdentifier(l), l.position)
      [] isDigit(l.ch)  -> numberToken(readNumber(l), l.position)
      [] OTHER          -> operatorToken(OperatorToken(l), l.position)

\* Lexer.NextToken: skipWhitespace, `if l.inComment { l.skipMultiLineComment() }`
\* (whose loop does nothing outside a comment), then the switch
NextToken(l) == tokenAt(skipMultiLineComment(skipWhitespace(l)))

-----------------------------------------------------------------------------
(* object.Object *)

WORKING_DIR == <<"W", "O", "R", "K", "I", "N", "G", "_", "D", "I", "R">>
INSTALL_DIR == <<"I", "N", "S", "T", "A", "L", "L", "_", "D", "I", "R">>

\* the names an environment is asked for: those of the sources of the model
Names == {<<"f">>, <<"g">>, <<"h">>, <<"x">>, <<"y">>, <<"k">>, <<"i">>,
          <<"c">>, <<"a">>, <<"s">>, <<"m">>, <<"n">>, <<"r">>, <<"l", "e", "n">>,
          <<"p", "u", "s", "h">>, <<"p", "o", "p">>, WORKING_DIR, INSTALL_DIR}

nil       == [t |-> "nil"]
NULL      == [t |-> "NULL"]
TRUE_OBJ  == [t |-> "BOOLEAN", b |-> TRUE]
FALSE_OBJ == [t |-> "BOOLEAN", b |-> FALSE]
BREAK     == [t |-> "BREAK"]
CNT       == [t |-> "CONTINUE"]

Integer(p)      == [t |-> "INTEGER", p |-> p]
String(s)       == [t |-> "STRING", s |-> s]
ReturnValue(v)  == [t |-> "RETURN_VALUE", v |-> v]
Function(params, body, env) ==
    [t |-> "FUNCTION", params |-> params, body |-> body, env |-> env]
Array(p)        == [t |-> "ARRAY", p |-> p]
Hash(p)         == [t |-> "HASH", p |-> p]
Builtin(name)   == [t |-> "BUILTIN", name |-> name]

\* fmt.Sprintf(format, a...): the format followed by the arguments
newError(msg) == [t |-> "ERROR", msg |-> msg]

isError(obj) == obj.t = "ERROR"

nativeBoolToBooleanObject(input) == IF input THEN TRUE_OBJ ELSE FALSE_OBJ

isTruthy(obj) ==
    CASE obj = NULL      -> FALSE
      [] obj = TRUE_OBJ  -> TRUE
      [] obj = FALSE_OBJ -> FALSE
      [] OTHER           -> TRUE

\* The machine state an evaluation threads through: [frames, cells, heap,
\* files, ranges, abort], abort being "" or why the evaluation never returned:
\* "panic" (the Go runtime panicked: nil dereference, index out of range) or
\* "cut" (a loop outran MaxLoop, the hash literals outran MaxRanges or
\* MaxPairs).  ranges are the orders in which the Go runtime will range over
\* the next maps, one permutation of 1..MaxPairs for each.
Ret(v, st) == [v |-> v, st |-> st]
Panic(st)  == [v |-> nil, st |-> [st EXCEPT !.abort = "panic"]]

\* &object.Integer{Value: new(big.Int)...}: a fresh cell holding n
NewInteger(st, n) ==
    Ret(Integer(Len(st.cells) + 1),
        [st EXCEPT !.cells = Append(st.cells, n)])

-----------------------------------------------------------------------------
(* Go slices.  A slice is its header [back, len, cap]: the backing array    *)
(* it points into (0 for a nil pointer; every slice of the evaluator       *)
(* starts at the first slot of its backing array), its length and its      *)
(* capacity.  A backing array is a sequence of cap slots, nil where        *)
(* nothing was stored.                                                     *)

nilSlice == [back |-> 0, len |-> 0, cap |-> 0]

EmptyHeap == [arrays |-> <<>>, backs |-> <<>>, hashes |-> <<>>, keys |-> <<>>]

\* s[0:len(s)] as a sequence of objects
SliceElements(h, s) == IF s.len = 0 THEN <<>> ELSE SubSeq(h.backs[s.back], 1, s.len)

\* the slots of a fresh backing array that nothing was stored in
RECURSIVE nilSlots(_)
nilSlots(n) == IF n <= 0 THEN <<>> ELSE Append(nilSlots(n - 1), nil)

\* runtime.growslice: the capacity of the array that replaces one of oldCap
\* slots when newLen are needed.  Below 256 slots the capacity doubles,
\* unless even that is too small; the rounding up to a size class of the
\* allocator changes no capacity up to 16 slots of two words, which no
\* array of the model exceeds.
growslice(oldCap, newLen) == IF newLen > 2 * oldCap THEN newLen ELSE 2 * oldCap

\* append(s, elems...): [s, h], the slice returned and the heap.  Within
\* the capacity the elements are stored in the backing array of s, past
\* its length; beyond it the slice moves to a fresh array.
append(h, s, elems) ==
    IF elems = <<>> THEN [s |-> s, h |-> h]
    ELSE IF s.len + Len(elems) <= s.cap
    THEN [s |-> [s EXCEPT !.len = s.len + Len(elems)],
          h |-> [h EXCEPT !.backs[s.back] =
                    [i \in 1..s.cap |->
                        IF i > s.len /\ i <= s.len + Len(elems)
                        THEN elems[i - s.len] ELSE @[i]]]]
    ELSE [s |-> [back |-> Len(h.backs) + 1, len |-> s.len + Len(elems),
                 cap |-> growslice(s.cap, s.len + Len(elems))],
          h |-> [h EXCEPT !.backs = Append(@,
                    SliceElements(h, s) \o elems
                    \o nilSlots(growslice(s.cap, s.len + Len(elems))
                                - s.len - Len(elems)))]]

\* the capacity of the slice that n appends of one element to a nil slice
\* leave (evalExpressions builds its result that way)
RECURSIVE appendedCap(_)
appendedCap(n) ==
    IF n = 0 THEN 0
    ELSE IF n <= appendedCap(n - 1) THEN appendedCap(n - 1)
    ELSE growslice(appendedCap(n - 1), n)

\* the slice evalExpressions returns for the objects vs: the arrays it
\* outgrew on the way are garbage and are not kept in the heap
appended(h, vs) ==
    IF vs = <<>> THEN [s |-> nilSlice, h |-> h]
    ELSE [s |-> [back |-> Len(h.backs) + 1, len |-> Len(vs),
                 cap |-> appendedCap(Len(vs))],
          h |-> [h EXCEPT !.backs =
                    Append(@, vs \o nilSlots(appendedCap(Len(vs)) - Len(vs)))]]

\* &object.Array{Elements: r.s}, r being [s, h]: [v, h]
NewArray(r) ==
    [v |-> Array(Len(r.h.arrays) + 1),
     h |-> [r.h EXCEPT !.arrays = Append(@, r.s)]]

\* arr.Elements as a sequence, arr an Array object
Elements(h, arr) == SliceElements(h, h.arrays[arr.p])

\* Hash.Pairs is a Go map: a function from the HashKeys it holds to their
\* HashPairs.  String.HashKey(): the FNV-1a sum of the bytes stands for
\* the bytes themselves.  The HashKey of Boolean and Float objects is not
\* modelled and has no arm.
HashKey(obj) ==
    CASE obj.t = "STRING" -> [Type |-> "STRING", Value |-> obj.s]

\* Integer.HashKey(): [key, st].  The key is computed from the value at the
\* first call and read from the object's hashKey field afterwards;
\* heap.keys holds that field for the Integers in which it is set.
\* uint64(i.Value) is the value itself for the Integers used as keys here,
\* none negative.
IntegerHashKey(obj, st) ==
    IF obj.p \in DOMAIN st.heap.keys
    THEN [key |-> st.heap.keys[obj.p], st |-> st]
    ELSE [key |-> [Type |-> "INTEGER", Value |-> st.cells[obj.p]],
          st  |-> [st EXCEPT !.heap.keys =
                      (obj.p :> [Type |-> "INTEGER", Value |-> st.cells[obj.p]]) @@ @]]

\* key.HashKey() of a hashable object: [key, st]
HashKeyOf(obj, st) ==
    IF obj.t = "INTEGER" THEN IntegerHashKey(obj, st)
    ELSE [key |-> HashKey(obj), st |-> st]

HashPair(key, value) == [Key |-> key, Value |-> value]

\* _, ok := obj.(object.Hashable)
Hashable(obj) == obj.t \in {"INTEGER", "BOOLEAN", "STRING", "FLOAT"}

\* pairs[hashKey] = pair
PairsPut(pairs, hashKey, pair) == (hashKey :> pair) @@ pairs

\* &object.Hash{Pairs: pairs}: [v, st]
NewHash(pairs, st) ==
    Ret(Hash(Len(st.heap.hashes) + 1),
        [st EXCEPT !.heap.hashes = Append(@, pairs)])

-----------------------------------------------------------------------------
(* object.Environment *)

EnvValue(val, readOnly) == [ok |-> TRUE, Value |-> val, ReadOnly |-> readOnly]
\* what a Go map read of a missing key gives: the zero EnvValue, ok = false
ZeroEnvValue == [ok |-> FALSE, Value |-> nil, ReadOnly |-> FALSE]

NewEnvironment == [store |-> [n \in Names |-> ZeroEnvValue], outer |-> 0]

\* the new frame is the last of the heap
NewEnclosedEnvironment(fs, outer) ==
    Append(fs, [store |-> [n \in Names |-> ZeroEnvValue], outer |-> outer])

\* Get as it would be if the read-only flag were dropped on the way out
RECURSIVE GetDroppingReadOnly(_, _, _)
GetDroppingReadOnly(fs, e, name) ==
    LET env == fs[e].store[name] IN
    IF ~env.ok /\ fs[e].outer # 0
    THEN GetDroppingReadOnly(fs, fs[e].outer, name)
    ELSE [Value |-> env.Value, ok |-> env.ok, ReadOnly |-> FALSE]

RECURSIVE Get(_, _, _)
Get(fs, e, name) ==
    LET env == fs[e].store[name] IN
    IF ~env.ok /\ fs[e].outer # 0
    THEN Get(fs, fs[e].outer, name)
    ELSE [Value |-> env.Value, ok |-> env.ok, ReadOnly |-> env.ReadOnly]

isValidName(name) == name # <<>> /\ ~isDigit(name[1])

isExist(fs, e, name) == fs[e].store[name].ok

NewVar(fs, e, name, val) ==
    IF ~isValidName(name)
    THEN [fs |-> fs, ret |-> newError(<<"invalid variable name '%s'", name>>)]
    ELSE IF isExist(fs, e, name)
    THEN [fs |-> fs, ret |-> newError(<<"cannot redeclare variable '%s'", name>>)]
    ELSE [fs |-> [fs EXCEPT ![e].store[name] = EnvValue(val, FALSE)], ret |-> val]

NewConst(fs, e, name, val) ==
    IF ~isValidName(name)
    THEN [fs |-> fs, ret |-> newError(<<"invalid variable name '%s'", name>>)]
    ELSE IF isExist(fs, e, name)
    THEN [fs |-> fs, ret |-> newError(<<"cannot redeclare constant '%s'", name>>)]
    ELSE [fs |-> [fs EXCEPT ![e].store[name] = EnvValue(val, TRUE)], ret |-> val]

\* Set as it would be if it wrote the innermost frame without walking out
SetInnermost(fs, e, name, val) ==
    IF fs[e].store[name].ReadOnly
    THEN [fs |-> fs, ret |-> newError(<<"cannot assign to constant '%s'", name>>)]
    ELSE [fs |-> [fs EXCEPT ![e].store[name] = EnvValue(val, FALSE)], ret |-> val]

RECURSIVE Set(_, _, _, _)
Set(fs, e, name, val) ==
    LET env == fs[e].store[name] IN
    IF ~env.ok /\ fs[e].outer # 0
    THEN Set(fs, fs[e].outer, name, val)
    ELSE IF env.ReadOnly
    THEN [fs |-> fs, ret |-> newError(<<"cannot assign to constant '%s'", name>>)]
    ELSE [fs |-> [fs EXCEPT ![e].store[name] = EnvValue(val, FALSE)], ret |-> val]

-----------------------------------------------------------------------------
(* math/big as the evaluator uses it *)

Abs(n) == IF n < 0 THEN -n ELSE n

\* Int.QuoRem: truncated division
Quo(x, y) ==
    LET q == Abs(x) \div Abs(y) IN IF (x < 0) # (y < 0) THEN -q ELSE q
Rem(x, y) == x - y * Quo(x, y)

\* Div as it would be if it were Int.Quo
BigDivTruncated(x, y) == Quo(x, y)

\* Int.Div: QuoRem, then one step towards Euclidean division when r < 0
BigDiv(x, y) ==
    IF Rem(x, y) < 0
    THEN (IF y < 0 THEN Quo(x, y) + 1 ELSE Quo(x, y) - 1)
    ELSE Quo(x, y)

\* Int.Mod: QuoRem, then r +/- y when r < 0
BigMod(x, y) ==
    IF Rem(x, y) < 0
    THEN (IF y < 0 THEN Rem(x, y) - y ELSE Rem(x, y) + y)
    ELSE Rem(x, y)

-----------------------------------------------------------------------------
(* ast: the nodes the parser builds.  An IntegerLiteral's Value is the     *)
(* *big.Int the parser allocated for it: cell number `Value` of the heap.  *)

BlockStatement(stmts)        == [k |-> "BlockStatement", Statements |-> stmts]
NilNode                      == [k |-> "nil"]
ExpressionStatement(e)       == [k |-> "ExpressionStatement", Expression |-> e]
ReturnStatement(e)           == [k |-> "ReturnStatement", ReturnValue |-> e]
LetStatement(name, e)        == [k |-> "LetStatement", Name |-> name, Value |-> e]
ConstStatement(name, e)      == [k |-> "ConstStatement", Name |-> name, Value |-> e]
WhileStatement(cond, body)   == [k |-> "WhileStatement", Condition |-> cond, Body |-> body]
BreakStatement               == [k |-> "BreakStatement"]
ContinueStatement            == [k |-> "ContinueStatement"]
Identifier(name)             == [k |-> "Identifier", Value |-> name]
IntegerLiteral(cell)         == [k |-> "IntegerLiteral", Value |-> cell]
Boolean(b)                   == [k |-> "Boolean", Value |-> b]
PrefixExpression(op, right)  == [k |-> "PrefixExpression", Operator |-> op, Right |-> right]
PostfixExpression(op, left)  == [k |-> "PostfixExpression", Operator |-> op, Left |-> left]
InfixExpression(op, l, r)    == [k |-> "InfixExpression", Operator |-> op, Left |-> l, Right |-> r]
IfExpression(c, cons, elifs, alt) ==
    [k |-> "IfExpression", Condition |-> c, Consequence |-> cons,
     Elifs |-> elifs, Alternative |-> alt]
FunctionLiteral(params, body) == [k |-> "FunctionLiteral", Parameters |-> params, Body |-> body]
CallExpression(fn, args)     == [k |-> "CallExpression", Function |-> fn, Arguments |-> args]
Assignment(name, e)          == [k |-> "Assignment", Name |-> name, Value |-> e]
ElifExpression(c, cons)      == [Condition |-> c, Consequence |-> cons]
StringLiteral(s)             == [k |-> "StringLiteral", Value |-> s]
FloatLiteral                 == [k |-> "FloatLiteral"]
ArrayLiteral(elements)       == [k |-> "ArrayLiteral", Elements |-> elements]
IndexExpression(l, index)    == [k |-> "IndexExpression", Left |-> l, Index |-> index]
MultiDimensionalIndex(is)    == [k |-> "MultiDimensionalIndex", Indices |-> is]
HashLiteral(pairs)           == [k |-> "HashLiteral", Pairs |-> pairs]
DotExpression(l, r)          == [k |-> "DotExpression", Left |-> l, Right |-> r]
ImportExpression(path)       == [k |-> "ImportExpression", Path |-> path]
ForStatement(init, c, post, body) ==
    [k |-> "ForStatement", Init |-> init, Condition |-> c, Post |-> post,
     Body |-> body]

-----------------------------------------------------------------------------
(* parser.  The Parser struct is [l, curToken, peekToken, errors, ints]:   *)
(* ints are the *big.Int values parseIntegerLiteral has allocated, in      *)
(* order, an IntegerLiteral holding the index of its own.  A parse         *)
(* function returns [p, node]: the parser it leaves and the node it built  *)
(* (NilNode for nil).  An error message is its format's text followed by   *)
(* the arguments.                                                          *)
(*                                                                         *)
(* Left out: the prefix parsers of FLOAT and of `.` (parseFloatLiteral,     *)
(* parseQuickFloatLiteral); no source of the model has a token that        *)
(* selects one of them.                                                    *)

LOWEST      == 1
OP_ASSIGN   == 2
ASSIGN      == 3
LOGICAL_OR  == 4
LOGICAL_AND == 5
EQUALS      == 6
LESSGREATER == 7
SUM         == 8
PRODUCT     == 9
PREFIX      == 10
CALL        == 11
INDEX       == 12
MODULUS     == 13
POW         == 14
BITWISE     == 15
POSTFIX     == 16
DOT         == 17
IMPORT      == 18

\* precedences[t], LOWEST where the map has no entry
precedences(t) ==
    CASE t \in {"==", "!="}                -> EQUALS
      [] t \in {"<", ">", "<=", ">="}      -> LESSGREATER
      [] t \in {"+", "-"}                  -> SUM
      [] t \in {"/", "*"}                  -> PRODUCT
      [] t = "%"                           -> MODULUS
      [] t = "**"                          -> POW
      [] t \in {"++", "--"}                -> POSTFIX
      [] t \in {"&", "|", "^", ">>", "<<"} -> BITWISE
      [] t = "="                           -> ASSIGN
      [] t = "("                           -> CALL
      [] t = "["                           -> INDEX
      [] t \in {"+=", "-=", "*=", "/=", "%=", "&=", "|=", "^=",
                "<<=", ">>=", "**="}       -> OP_ASSIGN
      [] t = "&&"                          -> LOGICAL_AND
      [] t = "||"                          -> LOGICAL_OR
      [] t = "."                           -> DOT
      [] t = "IMPORT"                      -> IMPORT
      [] OTHER                             -> LOWEST

\* the token types New registers a prefix (an infix) parse function for
PrefixTypes == {"IDENT", "INT", "!", "-", "~", "TRUE", "FALSE", "(", "IF",
                "FUNCTION", "{", "FLOAT", "STRING", "[", "++", "--",
                "IMPORT", "."}

InfixOperatorTypes ==
    {"+", "-", "/", "*", "==", "!=", "<", ">", "%", "**", "<=", ">=",
     "&", "|", "^", ">>", "<<", "+=", "-=", "*=", "/=", "%=", "&=", "|=",
     "^=", "<<=", ">>=", "**=", "&&", "||"}

InfixTypes == InfixOperatorTypes \cup {"(", "[", "++", "--", "."}

PN(p, node) == [p |-> p, node |-> node]

\* A lexer between two calls of NextToken is its input and its position:
\* readChar left readPosition one further and ch the character there, and
\* no call returns inside a comment.
lexerAt(l, i) ==
    [l EXCEPT !.position = i, !.readPosition = i + 1,
              !.ch = IF i >= Len(l.input) THEN NUL ELSE l.input[i + 1],
              !.inComment = FALSE]

\* What l.NextToken() returns from each position of the input.  The lexer
\* reads nothing but its input, so this is fixed once the parser is made:
\* the parser keeps it in `ahead` and looks its lexer's position up where
\* the source calls p.l.NextToken().
lexAhead(l) == [i \in 0..Len(l.input) |-> NextToken(lexerAt(l, i))]

\* NextToken past the end of the input: l.ch is 0, nothing is skipped and
\* `case 0` gives EOF, reading on
atEndOfInput(l) == Lexed(Token("EOF", <<>>), readChar(l), l.position)

\* p.curToken = p.peekToken; p.peekToken = p.l.NextToken(): r is what
\* NextToken returned
shiftToken(p, r) ==
    [p EXCEPT !.curToken = p.peekToken, !.peekToken = r.tok, !.l = r.l]

nextToken(p) ==
    shiftToken(p, IF p.l.position \in DOMAIN p.ahead THEN p.ahead[p.l.position]
                  ELSE atEndOfInput(p.l))

\* parser.New
ParserNew(l) ==
    nextToken(nextToken([l |-> l, ahead |-> lexAhead(l),
                         errors |-> <<>>, ints |-> <<>>,
                         curToken |-> Token("", <<>>),
                         peekToken |-> Token("", <<>>)]))

curTokenIs(p, t)  == p.curToken.Type = t
peekTokenIs(p, t) == p.peekToken.Type = t

peekError(p, t) ==
    [p EXCEPT !.errors = Append(@, <<"expected next token to be %s, got %s instead",
                                     t, p.peekToken.Type>>)]

\* [p, ok]
expectPeek(p, t) ==
    IF peekTokenIs(p, t)
    THEN [p |-> nextToken(p), ok |-> TRUE]
    ELSE [p |-> peekError(p, t), ok |-> FALSE]

\* `if !p.expectPeek(t) { return nil }` right after another one, e being
\* what the first gave: [p, ok]
andExpectPeek(e, t) == IF e.ok THEN expectPeek(e.p, t) ELSE e

\* `if !p.expectPeek(t) { return nil }; return node`, e being what
\* expectPeek gave
nodeOrNil(node, e) == PN(e.p, IF e.ok THEN node ELSE NilNode)

\* the same for a function that returns a slice: [p, list], list empty
\* where the source returns nil
listOrNil(list, e) == [p |-> e.p, list |-> IF e.ok THEN list ELSE <<>>]

noPrefixParseFnError(p, t) ==
    [p EXCEPT !.errors = Append(@, <<"no prefix parse function for %s found", t>>)]

peekPrecedence(p) == precedences(p.peekToken.Type)
curPrecedence(p)  == precedences(p.curToken.Type)

\* if p.peekTokenIs(token.SEMICOLON) { p.nextToken() }
skipSemicolon(p) == IF peekTokenIs(p, ";") THEN nextToken(p) ELSE p

DigitValue(ch) ==
    CASE ch = "0" -> 0 [] ch = "1" -> 1 [] ch = "2" -> 2 [] ch = "3" -> 3
      [] ch = "4" -> 4 [] ch = "5" -> 5 [] ch = "6" -> 6 [] ch = "7" -> 7
      [] ch = "8" -> 8 [] ch = "9" -> 9

RECURSIVE DigitsValue(_, _)
DigitsValue(digits, base) ==
    IF digits = <<>> THEN 0
    ELSE DigitsValue(SubSeq(digits, 1, Len(digits) - 1), base) * base
         + DigitValue(digits[Len(digits)])

\* big.Int.SetString(literal, 0) on the literals the lexer gives an INT
\* token: digits read in base ten, or in base eight after a leading 0;
\* anything else is no integer.  [ok, n]
SetString(literal) ==
    IF literal = <<>> \/ \E i \in 1..Len(literal) : ~isDigit(literal[i])
    THEN [ok |-> FALSE, n |-> 0]
    ELSE IF Len(literal) > 1 /\ literal[1] = "0"
    THEN IF \E i \in 1..Len(literal) : literal[i] \in {"8", "9"}
         THEN [ok |-> FALSE, n |-> 0]
         ELSE [ok |-> TRUE, n |-> DigitsValue(literal, 8)]
    ELSE [ok |-> TRUE, n |-> DigitsValue(literal, 10)]

\* big.ParseFloat(literal, 10, ...) on the same literals: err == nil.  The
\* lexer hands over digits, at most one point before any exponent, and
\* exponents that each have their digits; only one exponent is a float.
ParseFloatAccepts(literal) ==
    /\ literal # <<>>
    /\ Cardinality({i \in 1..Len(literal) : literal[i] \in {"e", "E"}}) <= 1

parseIdentifier(p) == PN(p, Identifier(p.curToken.Literal))

\* The value of the float the literal falls back to is not computed.
parseIntegerLiteral(p) ==
    LET value == SetString(p.curToken.Literal) IN
    IF value.ok
    THEN PN([p EXCEPT !.ints = Append(@, value.n)], IntegerLiteral(Len(p.ints) + 1))
    ELSE IF ParseFloatAccepts(p.curToken.Literal)
    THEN PN(p, FloatLiteral)
    ELSE PN([p EXCEPT !.errors = Append(@, <<"could not parse %q as integer or float",
                                             p.curToken.Literal>>)],
            NilNode)

parseBoolean(p) == PN(p, Boolean(curTokenIs(p, "TRUE")))

parseStringLiteral(p) == PN(p, StringLiteral(p.curToken.Literal))

parsePostfixExpression(p, left) ==
    PN(p, PostfixExpression(p.curToken.Literal, left))

isCompoundAssignmentOperator(operator) ==
    operator \in {<<"+", "=">>, <<"-", "=">>, <<"*", "=">>, <<"/", "=">>,
                  <<"%", "=">>, <<"&", "=">>, <<"|", "=">>, <<"^", "=">>,
                  <<"<", "<", "=">>, <<">", ">", "=">>, <<"*", "*", "=">>}

\* A parse function that calls others is written as the chain of its steps,
\* last step first: each step takes what the call before it returned, so
\* that every call of the source is made once.

RECURSIVE parseStatement(_)
RECURSIVE parseExpression(_, _)
RECURSIVE parseExpressionLoop(_, _)
RECURSIVE parseBlockFrom(_, _)
RECURSIVE parseElifs(_, _)
RECURSIVE parseExpressionsFrom(_)

\* the loop of parseBlockStatement, the statements parsed so far in hand
parseBlockFrom(p, stmts) ==
    IF curTokenIs(p, "}") \/ curTokenIs(p, "EOF")
    THEN PN(p, BlockStatement(stmts))
    ELSE LET stmt == parseStatement(p)
         IN parseBlockFrom(nextToken(stmt.p), Append(stmts, stmt.node))

parseBlockStatement(p) == parseBlockFrom(nextToken(p), <<>>)

\* ---- parsePrefixExpression
prefixExpressionOf(operator, right) ==
    PN(right.p, PrefixExpression(operator, right.node))

parsePrefixExpression(p) ==
    prefixExpressionOf(p.curToken.Literal, parseExpression(nextToken(p), PREFIX))

\* ---- parseGroupedExpression
groupedExpressionOf(exp) == nodeOrNil(exp.node, expectPeek(exp.p, ")"))

parseGroupedExpression(p) ==
    groupedExpressionOf(parseExpression(nextToken(p), LOWEST))

\* ---- the `for p.peekTokenIs(token.ELIF)` loop of parseIfExpression:
\* [p, ok, elifs], ok false where the source returns nil
elifAppend(elifs, condition, consequence) ==
    parseElifs(consequence.p,
               Append(elifs, ElifExpression(condition, consequence.node)))

elifConsequence(elifs, condition, e) ==
    IF ~e.ok THEN [p |-> e.p, ok |-> FALSE, elifs |-> elifs]
    ELSE elifAppend(elifs, condition, parseBlockStatement(e.p))

elifBraces(elifs, condition) ==
    elifConsequence(elifs, condition.node,
                    andExpectPeek(expectPeek(condition.p, ")"), "{"))

elifCondition(elifs, e) ==
    IF ~e.ok THEN [p |-> e.p, ok |-> FALSE, elifs |-> elifs]
    ELSE elifBraces(elifs, parseExpression(nextToken(e.p), LOWEST))

parseElifs(p, elifs) ==
    IF ~peekTokenIs(p, "ELIF") THEN [p |-> p, ok |-> TRUE, elifs |-> elifs]
    ELSE elifCondition(elifs, expectPeek(nextToken(p), "("))

\* ---- parseIfExpression
ifExpressionOf(condition, consequence, elifs, alternative) ==
    PN(alternative.p,
       IfExpression(condition, consequence, elifs, alternative.node))

ifAlternative(condition, consequence, elifs, e) ==
    IF ~e.ok THEN PN(e.p, NilNode)
    ELSE ifExpressionOf(condition, consequence, elifs, parseBlockStatement(e.p))

ifElse(condition, consequence, el) ==
    IF ~el.ok THEN PN(el.p, NilNode)
    ELSE IF peekTokenIs(el.p, "ELSE")
    THEN ifAlternative(condition, consequence, el.elifs,
                       expectPeek(nextToken(el.p), "{"))
    ELSE PN(el.p, IfExpression(condition, consequence, el.elifs, NilNode))

ifElifs(condition, consequence) ==
    ifElse(condition, consequence.node, parseElifs(consequence.p, <<>>))

ifConsequence(condition, e) ==
    IF ~e.ok THEN PN(e.p, NilNode)
    ELSE ifElifs(condition, parseBlockStatement(e.p))

ifBraces(condition) ==
    ifConsequence(condition.node,
                  andExpectPeek(expectPeek(condition.p, ")"), "{"))

ifCondition(e) ==
    IF ~e.ok THEN PN(e.p, NilNode)
    ELSE ifBraces(parseExpression(nextToken(e.p), LOWEST))

parseIfExpression(p) == ifCondition(expectPeek(p, "("))

\* ---- parseFunctionParameters: [p, list]
\* ident := &ast.Identifier{...}; identifiers = append(identifiers, ident)
appendIdentifier(identifiers, p) ==
    [p |-> p, list |-> Append(identifiers, Identifier(p.curToken.Literal))]

\* the `for p.peekTokenIs(token.COMMA)` loop
RECURSIVE parseParametersFrom(_)
parseParametersFrom(r) ==
    IF peekTokenIs(r.p, ",")
    THEN parseParametersFrom(appendIdentifier(r.list, nextToken(nextToken(r.p))))
    ELSE r

functionParametersOf(r) == listOrNil(r.list, expectPeek(r.p, ")"))

parseFunctionParameters(p) ==
    IF peekTokenIs(p, ")") THEN [p |-> nextToken(p), list |-> <<>>]
    ELSE functionParametersOf(
             parseParametersFrom(appendIdentifier(<<>>, nextToken(p))))

\* ---- parseFunctionLiteral
functionLiteralOf(parameters, body) ==
    PN(body.p, FunctionLiteral(parameters, body.node))

functionBody(parameters, e) ==
    IF ~e.ok THEN PN(e.p, NilNode)
    ELSE functionLiteralOf(parameters, parseBlockStatement(e.p))

functionBrace(parameters) ==
    functionBody(parameters.list, expectPeek(parameters.p, "{"))

functionParameters(e) ==
    IF ~e.ok THEN PN(e.p, NilNode)
    ELSE functionBrace(parseFunctionParameters(e.p))

parseFunctionLiteral(p) == functionParameters(expectPeek(p, "("))

\* ---- parseExpressionList: [p, list]
\* list = append(list, p.parseExpression(LOWEST)), exp being what
\* parseExpression returned
appendExpression(list, exp) == [p |-> exp.p, list |-> Append(list, exp.node)]

\* the `for p.peekTokenIs(token.COMMA)` loop
parseExpressionsFrom(r) ==
    IF peekTokenIs(r.p, ",")
    THEN parseExpressionsFrom(
             appendExpression(r.list,
                              parseExpression(nextToken(nextToken(r.p)), LOWEST)))
    ELSE r

expressionListOf(r, end) == listOrNil(r.list, expectPeek(r.p, end))

parseExpressionList(p, end) ==
    IF peekTokenIs(p, end) THEN [p |-> nextToken(p), list |-> <<>>]
    ELSE expressionListOf(
             parseExpressionsFrom(
                 appendExpression(<<>>, parseExpression(nextToken(p), LOWEST))),
             end)

\* ---- parseCallExpression, parseArrayLiteral
callExpressionOf(function, arguments) ==
    PN(arguments.p, CallExpression(function, arguments.list))

parseCallExpression(p, function) ==
    callExpressionOf(function, parseExpressionList(p, ")"))

arrayLiteralOf(elements) == PN(elements.p, ArrayLiteral(elements.list))

parseArrayLiteral(p) == arrayLiteralOf(parseExpressionList(p, "]"))

\* ---- parseIndexExpression
multiDimensionalIndexOf(indices) ==
    PN(indices.p, MultiDimensionalIndex(indices.list))

\* if p.peekTokenIs(token.COMMA) { ... exp.Index = &ast.MultiDimensionalIndex{} }
indexIndices(index) ==
    IF peekTokenIs(index.p, ",")
    THEN multiDimensionalIndexOf(
             parseExpressionsFrom([p |-> index.p, list |-> <<index.node>>]))
    ELSE index

indexExpressionOf(left, index) ==
    nodeOrNil(IndexExpression(left, index.node), expectPeek(index.p, "]"))

parseIndexExpression(p, left) ==
    indexExpressionOf(left, indexIndices(parseExpression(nextToken(p), LOWEST)))

\* ---- parseAssignmentExpression
assignmentOf(name, value) ==
    PN(skipSemicolon(value.p), Assignment(name, value.node))

assignmentValue(name, e) ==
    IF ~e.ok THEN PN(e.p, NilNode)
    ELSE assignmentOf(name, parseExpression(nextToken(e.p), LOWEST))

parseAssignmentExpression(p, name) == assignmentValue(name, expectPeek(p, "="))

\* ---- parseInfixExpression
infixExpressionOf(operator, left, right) ==
    IF isCompoundAssignmentOperator(operator)
    THEN PN(right.p,
            Assignment(left,
                       InfixExpression(SubSeq(operator, 1, Len(operator) - 1),
                                       left, right.node)))
    ELSE PN(right.p, InfixExpression(operator, left, right.node))

parseInfixExpression(p, left) ==
    infixExpressionOf(p.curToken.Literal, left,
                      parseExpression(nextToken(p), curPrecedence(p)))

\* ---- parseHashLiteral.  hash.Pairs, a Go map from key node to value
\* node, is the sequence of its pairs in the order they were parsed; r is
\* [p, pairs, ok], ok false where the source returns nil.
hashPairs(p, pairs, ok) == [p |-> p, pairs |-> pairs, ok |-> ok]

RECURSIVE parseHashPairsFrom(_)

\* if !p.peekTokenIs(token.RBRACE) && !p.expectPeek(token.COMMA) { return nil }
hashPairComma(pairs, e) ==
    IF ~e.ok THEN hashPairs(e.p, pairs, FALSE)
    ELSE parseHashPairsFrom(hashPairs(e.p, pairs, TRUE))

hashPairValue(pairs, key, value) ==
    hashPairComma(Append(pairs, [Key |-> key, Value |-> value.node]),
                  IF peekTokenIs(value.p, "}")
                  THEN [p |-> value.p, ok |-> TRUE]
                  ELSE expectPeek(value.p, ","))

hashPairColon(pairs, key, e) ==
    IF ~e.ok THEN hashPairs(e.p, pairs, FALSE)
    ELSE hashPairValue(pairs, key, parseExpression(nextToken(e.p), LOWEST))

hashPairKey(pairs, key) == hashPairColon(pairs, key.node, expectPeek(key.p, ":"))

\* the `for !p.peekTokenIs(token.RBRACE)` loop
parseHashPairsFrom(r) ==
    IF peekTokenIs(r.p, "}") THEN r
    ELSE hashPairKey(r.pairs, parseExpression(nextToken(r.p), LOWEST))

hashLiteralOf(r) ==
    IF ~r.ok THEN PN(r.p, NilNode)
    ELSE nodeOrNil(HashLiteral(r.pairs), expectPeek(r.p, "}"))

parseHashLiteral(p) == hashLiteralOf(parseHashPairsFrom(hashPairs(p, <<>>, TRUE)))

\* ---- parseDotExpression
\* from `if !p.curTokenIs(token.IDENT)` on, p being the parser after nextToken
dotExpressionOf(p, left) ==
    IF ~curTokenIs(p, "IDENT")
    THEN PN([p EXCEPT !.errors = Append(@,
                <<"expected property name to be identifier, got %s instead",
                  p.curToken.Type>>)],
            NilNode)
    ELSE PN(p, DotExpression(left, Identifier(p.curToken.Literal)))

parseDotExpression(p, left) == dotExpressionOf(nextToken(p), left)

\* ---- parseImportExpression
importExpressionOf(path) ==
    nodeOrNil(ImportExpression(path.node), expectPeek(path.p, ")"))

importPath(e) ==
    IF ~e.ok THEN PN(e.p, NilNode)
    ELSE importExpressionOf(parseExpression(nextToken(e.p), LOWEST))

parseImportExpression(p) == importPath(expectPeek(p, "("))

\* prefix := p.prefixParseFns[p.curToken.Type]; prefix()
prefixParseFns(p) ==
    LET t == p.curToken.Type
    IN CASE t = "IDENT"                 -> parseIdentifier(p)
         [] t = "INT"                   -> parseIntegerLiteral(p)
         [] t \in {"!", "-", "~", "++", "--"} -> parsePrefixExpression(p)
         [] t \in {"TRUE", "FALSE"}     -> parseBoolean(p)
         [] t = "("                     -> parseGroupedExpression(p)
         [] t = "IF"                    -> parseIfExpression(p)
         [] t = "FUNCTION"              -> parseFunctionLiteral(p)
         [] t = "STRING"                -> parseStringLiteral(p)
         [] t = "["                     -> parseArrayLiteral(p)
         [] t = "{"                     -> parseHashLiteral(p)
         [] t = "IMPORT"                -> parseImportExpression(p)

\* infix := p.infixParseFns[p.curToken.Type]; infix(left)
infixParseFns(p, left) ==
    LET t == p.curToken.Type
    IN CASE t \in InfixOperatorTypes -> parseInfixExpression(p, left)
         [] t = "("                  -> parseCallExpression(p, left)
         [] t = "["                  -> parseIndexExpression(p, left)
         [] t \in {"++", "--"}       -> parsePostfixExpression(p, left)
         [] t = "."                  -> parseDotExpression(p, left)

\* ---- parseExpression
\* the `for` loop, r being the parser and leftExp
parseExpressionLoop(r, precedence) ==
    IF ~peekTokenIs(r.p, ";") /\ precedence < peekPrecedence(r.p)
    THEN IF curTokenIs(r.p, "IDENT") /\ peekTokenIs(r.p, "=")
         THEN parseAssignmentExpression(r.p, r.node)
         ELSE IF r.p.peekToken.Type \notin InfixTypes
         THEN r
         ELSE parseExpressionLoop(infixParseFns(nextToken(r.p), r.node),
                                  precedence)
    ELSE r

parseExpression(p, precedence) ==
    IF p.curToken.Type \notin PrefixTypes
    THEN PN(noPrefixParseFnError(p, p.curToken.Type), NilNode)
    ELSE parseExpressionLoop(prefixParseFns(p), precedence)

\* ---- parseLetStatement
letStatementOf(name, value) ==
    PN(skipSemicolon(value.p), LetStatement(Identifier(name), value.node))

letValue(name, e) ==
    IF ~e.ok THEN PN(e.p, NilNode)
    ELSE letStatementOf(name, parseExpression(nextToken(e.p), LOWEST))

\* stmt.Name is read off curToken between the two expectPeek
letName(e) == letValue(e.p.curToken.Literal, andExpectPeek(e, "="))

parseLetStatement(p) == letName(expectPeek(p, "IDENT"))

\* ---- parseConstStatement
constStatementOf(name, value) ==
    PN(skipSemicolon(value.p), ConstStatement(Identifier(name), value.node))

constValue(name, e) ==
    IF ~e.ok THEN PN(e.p, NilNode)
    ELSE constStatementOf(name, parseExpression(nextToken(e.p), LOWEST))

constName(e) == constValue(e.p.curToken.Literal, andExpectPeek(e, "="))

parseConstStatement(p) == constName(expectPeek(p, "IDENT"))

\* ---- parseReturnStatement, parseExpressionStatement
returnStatementOf(returnValue) ==
    PN(skipSemicolon(returnValue.p), ReturnStatement(returnValue.node))

parseReturnStatement(p) ==
    returnStatementOf(parseExpression(nextToken(p), LOWEST))

expressionStatementOf(expression) ==
    PN(skipSemicolon(expression.p), ExpressionStatement(expression.node))

parseExpressionStatement(p) ==
    expressionStatementOf(parseExpression(p, LOWEST))

\* ---- parseWhileStatement: nothing after the body is consumed
whileStatementOf(condition, body) ==
    PN(body.p, WhileStatement(condition, body.node))

whileBody(condition, e) ==
    IF ~e.ok THEN PN(e.p, NilNode)
    ELSE whileStatementOf(condition, parseBlockStatement(e.p))

whileBrace(condition) ==
    whileBody(condition.node, expectPeek(condition.p, "{"))

parseWhileStatement(p) == whileBrace(parseExpression(nextToken(p), LOWEST))

parseBreakStatement(p) == PN(skipSemicolon(p), BreakStatement)

parseContinueStatement(p) == PN(skipSemicolon(p), ContinueStatement)

\* ---- parseForStatement: nothing after the body is consumed
\* if !p.curTokenIs(t) { stmt.Init = p.parseStatement() }
statementUnless(p, t) ==
    IF ~curTokenIs(p, t) THEN parseStatement(p) ELSE PN(p, NilNode)

\* if !p.curTokenIs(t) { stmt.Condition = p.parseExpression(LOWEST) }
expressionUnless(p, t) ==
    IF ~curTokenIs(p, t) THEN parseExpression(p, LOWEST) ELSE PN(p, NilNode)

forStatementOf(init, condition, post, body) ==
    PN(body.p, ForStatement(init, condition, post, body.node))

forBody(init, condition, post, e) ==
    IF ~e.ok THEN PN(e.p, NilNode)
    ELSE forStatementOf(init, condition, post, parseBlockStatement(e.p))

forBraces(init, condition, post) ==
    forBody(init, condition, post.node,
            andExpectPeek(expectPeek(post.p, ")"), "{"))

forPost(init, condition, e) ==
    IF ~e.ok THEN PN(e.p, NilNode)
    ELSE forBraces(init, condition, statementUnless(nextToken(e.p), ")"))

forSemicolon(init, condition) ==
    forPost(init, condition.node, expectPeek(condition.p, ";"))

forCondition(init) ==
    forSemicolon(init.node, expressionUnless(nextToken(init.p), ";"))

forInit(e) ==
    IF ~e.ok THEN PN(e.p, NilNode)
    ELSE forCondition(statementUnless(nextToken(e.p), ";"))

parseForStatement(p) == forInit(expectPeek(p, "("))

parseStatement(p) ==
    CASE curTokenIs(p, "LET")      -> parseLetStatement(p)
      [] curTokenIs(p, "CONST")    -> parseConstStatement(p)
      [] curTokenIs(p, "RETURN")   -> parseReturnStatement(p)
      [] curTokenIs(p, "WHILE")    -> parseWhileStatement(p)
      [] curTokenIs(p, "BREAK")    -> parseBreakStatement(p)
      [] curTokenIs(p, "CONTINUE") -> parseContinueStatement(p)
      [] curTokenIs(p, "FOR")      -> parseForStatement(p)
      [] OTHER                     -> parseExpressionStatement(p)

\* ParseProgram: r is [p, stmts], stmts being program.Statements.  Every
\* stmt is appended, a nil one too (the nil test is commented out).
RECURSIVE parseProgramFrom(_)

appendStatement(stmts, stmt) ==
    parseProgramFrom([p |-> nextToken(stmt.p), stmts |-> Append(stmts, stmt.node)])

parseProgramFrom(r) ==
    IF curTokenIs(r.p, "EOF") THEN r
    ELSE appendStatement(r.stmts, parseStatement(r.p))

ParseProgram(p) == parseProgramFrom([p |-> p, stmts |-> <<>>])

-----------------------------------------------------------------------------
(* evaluator *)

\* The operators of evalIntegerInfixExpression the model computes.  The
\* The arms of the switch for the bitwise operators, ** and the compound
\* operators are not modelled, and the CASE has no arm for them: evaluating
\* one of them stops the model instead of giving a made-up answer. The
\* parser never builds an InfixExpression with a compound operator.
IntegerOperatorsLeftOut ==
    { <<"+", "=">>, <<"-", "=">>, <<"*", "=">>, <<"/", "=">>, <<"%", "=">>,
      <<"*", "*">>, <<"*", "*", "=">>, <<"&">>, <<"&", "=">>, <<"|">>,
      <<"|", "=">>, <<"^">>, <<"^", "=">>, <<">", ">">>, <<">", ">", "=">>,
      <<"<", "<">>, <<"<", "<", "=">> }

\* integer division that yields a number where the divisor is zero
evalIntegerInfixExpressionUnguarded(operator, left, right, st) ==
    LET leftVal  == st.cells[left.p]
        rightVal == st.cells[right.p]
    IN CASE operator = <<"+">>  -> NewInteger(st, leftVal + rightVal)
         [] operator = <<"-">>  -> NewInteger(st, leftVal - rightVal)
         [] operator = <<"*">>  -> NewInteger(st, leftVal * rightVal)
         [] operator = <<"/">>  -> IF rightVal = 0
                               THEN NewInteger(st, 0)
                               ELSE NewInteger(st, BigDiv(leftVal, rightVal))
         [] operator = <<"%">>  -> IF rightVal = 0
                               THEN NewInteger(st, leftVal)
                               ELSE NewInteger(st, BigMod(leftVal, rightVal))
         [] operator = <<"<">>  -> Ret(nativeBoolToBooleanObject(leftVal < rightVal), st)
         [] operator = <<">">>  -> Ret(nativeBoolToBooleanObject(leftVal > rightVal), st)
         [] operator = <<"=", "=">> -> Ret(nativeBoolToBooleanObject(leftVal = rightVal), st)
         [] operator = <<"!", "=">> -> Ret(nativeBoolToBooleanObject(leftVal # rightVal), st)
         [] operator = <<">", "=">> -> Ret(nativeBoolToBooleanObject(leftVal >= rightVal), st)
         [] operator = <<"<", "=">> -> Ret(nativeBoolToBooleanObject(leftVal <= rightVal), st)
         [] operator \notin IntegerOperatorsLeftOut ->
                Ret(newError(<<"unknown operator: %s %s %s", "INTEGER", operator, "INTEGER">>), st)

evalIntegerInfixExpression(operator, left, right, st) ==
    LET leftVal  == st.cells[left.p]
        rightVal == st.cells[right.p]
    IN CASE operator = <<"+">>  -> NewInteger(st, leftVal + rightVal)
         [] operator = <<"-">>  -> NewInteger(st, leftVal - rightVal)
         [] operator = <<"*">>  -> NewInteger(st, leftVal * rightVal)
         [] operator = <<"/">>  -> IF rightVal = 0
                               THEN Ret(newError(<<"division by zero">>), st)
                               ELSE NewInteger(st, BigDiv(leftVal, rightVal))
         [] operator = <<"%">>  -> IF rightVal = 0
                               THEN Ret(newError(<<"modulus by zero">>), st)
                               ELSE NewInteger(st, BigMod(leftVal, rightVal))
         [] operator = <<"<">>  -> Ret(nativeBoolToBooleanObject(leftVal < rightVal), st)
         [] operator = <<">">>  -> Ret(nativeBoolToBooleanObject(leftVal > rightVal), st)
         [] operator = <<"=", "=">> -> Ret(nativeBoolToBooleanObject(leftVal = rightVal), st)
         [] operator = <<"!", "=">> -> Ret(nativeBoolToBooleanObject(leftVal # rightVal), st)
         [] operator = <<">", "=">> -> Ret(nativeBoolToBooleanObject(leftVal >= rightVal), st)
         [] operator = <<"<", "=">> -> Ret(nativeBoolToBooleanObject(leftVal <= rightVal), st)
         [] operator \notin IntegerOperatorsLeftOut ->
                Ret(newError(<<"unknown operator: %s %s %s", "INTEGER", operator, "INTEGER">>), st)

evalBooleanInfixExpression(operator, left, right, st) ==
    CASE operator = <<"=", "=">> -> Ret(nativeBoolToBooleanObject(left.b = right.b), st)
      [] operator = <<"!", "=">> -> Ret(nativeBoolToBooleanObject(left.b # right.b), st)
      [] OTHER -> Ret(newError(<<"unknown operator: %s %s %s", "BOOLEAN", operator, "BOOLEAN">>), st)

\* Ordering of strings is not computed: no program of the model orders strings.
evalStringInfixExpression(operator, left, right, st) ==
    CASE operator = <<"+">>  -> Ret(String(left.s \o right.s), st)
      [] operator = <<"=", "=">> -> Ret(nativeBoolToBooleanObject(left.s = right.s), st)
      [] operator = <<"!", "=">> -> Ret(nativeBoolToBooleanObject(left.s # right.s), st)
      [] OTHER -> Ret(newError(<<"unknown operator: %s %s %s", "STRING", operator, "STRING">>), st)

\* IsEqual of the object package is not among the sources: == and != of
\* two hashes or two arrays have no arm.
evalHashInfixExpression(operator, left, right, st) ==
    CASE operator \notin {<<"=", "=">>, <<"!", "=">>} ->
            Ret(newError(<<"unknown operator: %s %s %s", "HASH", operator, "HASH">>), st)

\* return &object.Array{...}: made is what NewArray gave
retArray(made, st) == Ret(made.v, [st EXCEPT !.heap = made.h])

\* elements := append(leftArr.Elements, rightArr.Elements...)
evalArrayInfixExpression(operator, left, right, st) ==
    CASE operator = <<"+">> ->
            retArray(NewArray(append(st.heap, st.heap.arrays[left.p],
                                     Elements(st.heap, right))), st)
      [] operator \notin {<<"+">>, <<"=", "=">>, <<"!", "=">>} ->
            Ret(newError(<<"unknown operator: %s %s %s", "ARRAY", operator, "ARRAY">>), st)

\* strings.Repeat(s, count), count >= 0
RECURSIVE Repeat(_, _)
Repeat(text, count) == IF count = 0 THEN <<>> ELSE text \o Repeat(text, count - 1)

\* the case of a String and an Integer: left.(*object.String) and
\* right.(*object.Integer) panic when the two stand the other way round, and
\* strings.Repeat panics on a negative count
evalStringTimesInteger(operator, left, right, st) ==
    IF operator # <<"*">>
    THEN Ret(newError(<<"unknown operator: %s %s %s", left.t, operator, right.t>>), st)
    ELSE IF left.t # "STRING" \/ st.cells[right.p] < 0 THEN Panic(st)
    ELSE Ret(String(Repeat(left.s, st.cells[right.p])), st)

\* the case of an Array and an Integer.  With the Integer on the left the
\* loop condition's right.(*object.Integer) panics; the repetition of an
\* Array on the left is not modelled and has no arm.
evalArrayTimesInteger(operator, left, right, st) ==
    CASE operator # <<"*">> ->
            Ret(newError(<<"unknown operator: %s %s %s", left.t, operator, right.t>>), st)
      [] operator = <<"*">> /\ right.t # "INTEGER" -> Panic(st)

evalLogicalAndExpression(left, right) == IF isTruthy(left) THEN right ELSE left
evalLogicalOrExpression(left, right)  == IF isTruthy(left) THEN left ELSE right

\* left == right of two Go interface values: the same object.  Integers of
\* two evaluations are distinct objects even when they share a cell.
SameObject(left, right) ==
    /\ left.t = right.t
    /\ left.t \in {"NULL", "BOOLEAN", "BREAK", "CONTINUE", "nil"}
    /\ left = right

evalInfixExpression(operator, left, right, st) ==
    CASE operator = <<"&", "&">> -> Ret(evalLogicalAndExpression(left, right), st)
      [] operator = <<"|", "|">> -> Ret(evalLogicalOrExpression(left, right), st)
      [] left.t = "nil" \/ right.t = "nil" -> Panic(st)     \* nil.Type()
      [] left.t = "INTEGER" /\ right.t = "INTEGER" ->
            evalIntegerInfixExpression(operator, left, right, st)
      [] left.t = "BOOLEAN" /\ right.t = "BOOLEAN" ->
            evalBooleanInfixExpression(operator, left, right, st)
      [] left.t = "HASH" /\ right.t = "HASH" ->
            evalHashInfixExpression(operator, left, right, st)
      [] left.t = "STRING" /\ right.t = "STRING" ->
            evalStringInfixExpression(operator, left, right, st)
      [] {left.t, right.t} = {"STRING", "INTEGER"} ->
            evalStringTimesInteger(operator, left, right, st)
      [] left.t = "ARRAY" /\ right.t = "ARRAY" ->
            evalArrayInfixExpression(operator, left, right, st)
      [] {left.t, right.t} = {"ARRAY", "INTEGER"} ->
            evalArrayTimesInteger(operator, left, right, st)
      [] operator = <<"=", "=">> -> Ret(nativeBoolToBooleanObject(SameObject(left, right)), st)
      [] operator = <<"!", "=">> -> Ret(nativeBoolToBooleanObject(~SameObject(left, right)), st)
      [] left.t # right.t ->
            Ret(newError(<<"type mismatch: %s %s %s", left.t, operator, right.t>>), st)
      [] OTHER -> Ret(newError(<<"unknown operator: %s %s %s", left.t, operator, right.t>>), st)

evalBangOperatorExpression(right, st) ==
    CASE right = TRUE_OBJ  -> FALSE_OBJ
      [] right = FALSE_OBJ -> TRUE_OBJ
      [] right = NULL      -> TRUE_OBJ
      [] right.t = "INTEGER" -> nativeBoolToBooleanObject(st.cells[right.p] = 0)
      [] OTHER -> FALSE_OBJ

evalMinusPrefixOperatorExpression(right, st) ==
    CASE right.t = "INTEGER" -> NewInteger(st, 0 - st.cells[right.p])
      [] right.t = "nil"     -> Panic(st)
      [] OTHER -> Ret(newError(<<"unknown operator: -%s", right.t>>), st)

\* big.Int.Not: -x - 1
evalTildePrefixOperatorExpression(right, st) ==
    CASE right.t = "INTEGER" -> NewInteger(st, 0 - st.cells[right.p] - 1)
      [] right.t = "nil"     -> Panic(st)
      [] OTHER -> Ret(newError(<<"unknown operator: ~%s", right.t>>), st)

\* operand.Value.Add(operand.Value, 1): the operand's own cell is written
evalIncrementExpression(operand, isPrefix, st) ==
    CASE operand.t = "INTEGER" ->
            IF isPrefix
            THEN Ret(operand, [st EXCEPT !.cells[operand.p] = @ + 1])
            ELSE LET snapshot == NewInteger(st, st.cells[operand.p])
                 IN Ret(snapshot.v, [snapshot.st EXCEPT !.cells[operand.p] = @ + 1])
      [] operand.t = "nil" -> Panic(st)
      [] OTHER -> Ret(newError(<<"unknown operator: ++%s", operand.t>>), st)

evalDecrementExpression(operand, isPrefix, st) ==
    CASE operand.t = "INTEGER" ->
            IF isPrefix
            THEN Ret(operand, [st EXCEPT !.cells[operand.p] = @ - 1])
            ELSE LET snapshot == NewInteger(st, st.cells[operand.p])
                 IN Ret(snapshot.v, [snapshot.st EXCEPT !.cells[operand.p] = @ - 1])
      [] operand.t = "nil" -> Panic(st)
      [] OTHER -> Ret(newError(<<"unknown operator: --%s", operand.t>>), st)

evalPrefixExpression(operator, right, st) ==
    CASE operator = <<"!">>  -> Ret(evalBangOperatorExpression(right, st), st)
      [] operator = <<"-">>  -> evalMinusPrefixOperatorExpression(right, st)
      [] operator = <<"~">>  -> evalTildePrefixOperatorExpression(right, st)
      [] operator = <<"+", "+">> -> evalIncrementExpression(right, TRUE, st)
      [] operator = <<"-", "-">> -> evalDecrementExpression(right, TRUE, st)
      [] right.t = "nil" -> Panic(st)
      [] OTHER -> Ret(newError(<<"unknown operator: %s%s", operator, right.t>>), st)

evalPostfixExpression(operator, left, st) ==
    CASE operator = <<"+", "+">> -> evalIncrementExpression(left, FALSE, st)
      [] operator = <<"-", "-">> -> evalDecrementExpression(left, FALSE, st)
      [] left.t = "nil"  -> Panic(st)
      [] OTHER -> Ret(newError(<<"unknown operator: %s%s", operator, left.t>>), st)

\* The keys of the builtins table.
BuiltinNames ==
    { <<"l", "e", "n">>, <<"p", "u", "t", "s">>, <<"f", "i", "r", "s", "t">>,
      <<"l", "a", "s", "t">>, <<"r", "e", "s", "t">>, <<"p", "u", "s", "h">>,
      <<"p", "o", "p">>, <<"c", "o", "n", "c", "a", "t">>,
      <<"i", "n", "p", "u", "t">>, <<"i", "n", "t">>,
      <<"f", "l", "o", "a", "t">>, <<"s", "t", "r">>, <<"t", "y", "p", "e">> }

\* The messages name the builtin between backquotes, left out here.
\* builtins["len"]
builtinLen(args, st) ==
    IF Len(args) # 1
    THEN Ret(newError(<<"wrong number of arguments. got=%d, want=1", Len(args)>>), st)
    ELSE CASE args[1].t = "STRING" -> NewInteger(st, Len(args[1].s))
           [] args[1].t = "ARRAY"  -> NewInteger(st, st.heap.arrays[args[1].p].len)
           [] args[1].t = "nil"    -> Panic(st)
           [] OTHER -> Ret(newError(<<"argument to len not supported, got %s",
                                      args[1].t>>), st)

\* arr.Elements = r.s, r being what append returned: the state with the
\* slice header of arr and the heap replaced
storeElements(st, arr, r) ==
    [st EXCEPT !.heap = [r.h EXCEPT !.arrays[arr.p] = r.s]]

\* push as in the book: the argument is left alone, a copy is returned
builtinPushCopy(args, st) ==
    IF Len(args) # 2 \/ args[1].t # "ARRAY"
    THEN Ret(newError(<<"argument to push must be ARRAY">>), st)
    ELSE retArray(NewArray(append(st.heap, nilSlice,
                                  Elements(st.heap, args[1]) \o <<args[2]>>)), st)

\* builtins["push"]
builtinPush(args, st) ==
    IF Len(args) # 2
    THEN Ret(newError(<<"wrong number of arguments. got=%d, want=2", Len(args)>>), st)
    ELSE CASE args[1].t = "nil" -> Panic(st)
           [] args[1].t # "ARRAY" ->
                Ret(newError(<<"argument to push must be ARRAY, got %s",
                               args[1].t>>), st)
           [] OTHER ->
                Ret(args[1],
                    storeElements(st, args[1],
                        append(st.heap, st.heap.arrays[args[1].p], <<args[2]>>)))

\* builtins["pop"]
builtinPop(args, st) ==
    IF Len(args) # 1
    THEN Ret(newError(<<"wrong number of arguments. got=%d, want=1", Len(args)>>), st)
    ELSE CASE args[1].t = "nil" -> Panic(st)
           [] args[1].t # "ARRAY" ->
                Ret(newError(<<"argument to pop must be ARRAY, got %s",
                               args[1].t>>), st)
           [] st.heap.arrays[args[1].p].len > 0 ->
                Ret(Elements(st.heap, args[1])[st.heap.arrays[args[1].p].len],
                    [st EXCEPT !.heap.arrays[args[1].p].len = @ - 1])
           [] OTHER -> Ret(NULL, st)

\* fn.Fn(args...), fn a Builtin.  The other builtins are not modelled and
\* have no arm: calling one stops the model.
applyBuiltin(fn, args, st) ==
    CASE fn.name = <<"l", "e", "n">>      -> builtinLen(args, st)
      [] fn.name = <<"p", "u", "s", "h">> -> builtinPush(args, st)
      [] fn.name = <<"p", "o", "p">>      -> builtinPop(args, st)

evalIdentifier(node, env, st) ==
    LET got == Get(st.frames, env, node.Value) IN
    IF got.ok
    THEN Ret(got.Value, st)
    ELSE IF node.Value \in BuiltinNames
    THEN Ret(Builtin(node.Value), st)
    ELSE Ret(newError(<<"identifier not found: ", node.Value>>), st)

evalArrayIndexExpression(array, index, st) ==
    IF st.cells[index.p] < 0 \/ st.cells[index.p] > st.heap.arrays[array.p].len - 1
    THEN NULL
    ELSE Elements(st.heap, array)[st.cells[index.p] + 1]

evalHashIndexExpression(hash, index, st) ==
    CASE index.t = "nil" -> Panic(st)                       \* nil.Type()
      [] ~Hashable(index) ->
            Ret(newError(<<"unusable as hash key: %s", index.t>>), st)
      [] OTHER ->
            LET key == HashKeyOf(index, st) IN
            IF key.key \in DOMAIN st.heap.hashes[hash.p]
            THEN Ret(st.heap.hashes[hash.p][key.key].Value, key.st)
            ELSE Ret(NULL, key.st)

evalStringIndexExpression(str, index, st) ==
    IF st.cells[index.p] < 0 \/ st.cells[index.p] > Len(str.s) - 1
    THEN NULL
    ELSE String(<<str.s[st.cells[index.p] + 1]>>)

unwrapReturnValue(obj) == IF obj.t = "RETURN_VALUE" THEN obj.v ELSE obj

\* for paramIdx, param := range fn.Parameters { env.Set(param.Value, args[paramIdx]) }
\* from parameter i on; Set's result is dropped; args[paramIdx] past the end panics
RECURSIVE bindParameters(_, _, _, _, _)
bindParameters(params, args, i, env, st) ==
    IF i > Len(params) THEN st
    ELSE IF i > Len(args) THEN [st EXCEPT !.abort = "panic"]
    ELSE bindParameters(params, args, i + 1, env,
            [st EXCEPT !.frames = Set(st.frames, env, params[i].Value, args[i]).fs])

\* the new environment is the last frame of the returned heap
extendFunctionEnv(fn, args, st) ==
    LET fs == NewEnclosedEnvironment(st.frames, fn.env)
    IN bindParameters(fn.params, args, 1, Len(fs), [st EXCEPT !.frames = fs])

evalIndexExpression(left, index, st) ==
    CASE left.t = "nil" -> Panic(st)                        \* nil.Type()
      [] left.t = "HASH" -> evalHashIndexExpression(left, index, st)
      [] left.t \in {"ARRAY", "STRING"} /\ index.t = "nil" -> Panic(st)
      [] left.t = "ARRAY" /\ index.t = "INTEGER" ->
            Ret(evalArrayIndexExpression(left, index, st), st)
      [] left.t = "STRING" /\ index.t = "INTEGER" ->
            Ret(evalStringIndexExpression(left, index, st), st)
      [] OTHER -> Ret(newError(<<"index operator not supported: %s", left.t>>), st)

evalDotExpression(left, right, st) ==
    CASE left.t = "HASH" ->
            IF HashKey(String(right.Value)) \in DOMAIN st.heap.hashes[left.p]
            THEN Ret(st.heap.hashes[left.p][HashKey(String(right.Value))].Value, st)
            ELSE Ret(NULL, st)
      [] left.t = "nil" -> Panic(st)                        \* nil.Type()
      [] OTHER -> Ret(newError(<<"not a hash: %s", left.t>>), st)

\* a dot assignment that stores into a copy of the pairs
evalDotAssignmentOnCopy(left, right, val, st) ==
    IF left.t = "HASH" THEN Ret(val, st)
    ELSE Ret(newError(<<"not a hash: %s", left.t>>), st)

evalDotAssignment(left, right, val, st) ==
    CASE left.t = "HASH" ->
            Ret(val, [st EXCEPT !.heap.hashes[left.p] =
                        PairsPut(@, HashKey(String(right.Value)),
                                 HashPair(String(right.Value), val))])
      [] left.t = "nil" -> Panic(st)                        \* nil.Type()
      [] OTHER -> Ret(newError(<<"not a hash: %s", left.t>>), st)

RECURSIVE Eval(_, _, _)
RECURSIVE evalStatementsFrom(_, _, _, _, _, _)
RECURSIVE evalExpressionsFrom(_, _, _, _, _)
RECURSIVE evalElifsFrom(_, _, _, _)
RECURSIVE evalWhileFrom(_, _, _, _)
RECURSIVE evalHashPairsFrom(_, _, _, _, _, _)

\* the loop of evalBlockStatement and of evalLoopStatement from statement i
\* on, `stops` being the object types that end it
evalStatementsFrom(stmts, i, env, st, last, stops) ==
    IF i > Len(stmts) THEN Ret(last, st)
    ELSE LET r == Eval(stmts[i], env, st) IN
         IF r.st.abort # "" \/ r.v.t \in stops
         THEN r
         ELSE evalStatementsFrom(stmts, i + 1, env, r.st, r.v, stops)

evalBlockStatement(block, env, st) ==
    evalStatementsFrom(block.Statements, 1, env, st, nil, {"RETURN_VALUE", "ERROR"})

evalLoopStatement(body, env, st) ==
    evalStatementsFrom(body.Statements, 1, env, st, nil,
                       {"RETURN_VALUE", "ERROR", "BREAK", "CONTINUE"})

\* evalExpressions from expression i on: [vs, st]
\* evalExpressions without its early return: the first Error is still the
\* result, and the expressions after it are evaluated all the same
RECURSIVE evalExpressionsPastErrors(_, _, _, _, _)
evalExpressionsPastErrors(exps, i, env, st, sofar) ==
    IF i > Len(exps) THEN [vs |-> sofar, st |-> st]
    ELSE LET evaluated == Eval(exps[i], env, st) IN
         IF evaluated.st.abort # ""
         THEN [vs |-> <<evaluated.v>>, st |-> evaluated.st]
         ELSE IF isError(evaluated.v) \/ (sofar # <<>> /\ isError(sofar[1]))
         THEN evalExpressionsPastErrors(exps, i + 1, env, evaluated.st,
                                        IF sofar # <<>> /\ isError(sofar[1])
                                        THEN sofar ELSE <<evaluated.v>>)
         ELSE evalExpressionsPastErrors(exps, i + 1, env, evaluated.st,
                                        Append(sofar, evaluated.v))

evalExpressionsFrom(exps, i, env, st, sofar) ==
    IF i > Len(exps) THEN [vs |-> sofar, st |-> st]
    ELSE LET evaluated == Eval(exps[i], env, st) IN
         IF isError(evaluated.v) \/ evaluated.st.abort # ""
         THEN [vs |-> <<evaluated.v>>, st |-> evaluated.st]
         ELSE evalExpressionsFrom(exps, i + 1, env, evaluated.st,
                                  Append(sofar, evaluated.v))

evalExpressions(exps, env, st) == evalExpressionsFrom(exps, 1, env, st, <<>>)

applyFunction(fn, args, st) ==
    CASE fn.t = "FUNCTION" ->
            LET ext == extendFunctionEnv(fn, args, st) IN
            IF ext.abort # "" THEN Ret(nil, ext)
            ELSE LET evaluated == Eval(fn.body, Len(ext.frames), ext)
                 IN Ret(unwrapReturnValue(evaluated.v), evaluated.st)
      [] fn.t = "BUILTIN" -> applyBuiltin(fn, args, st)
      [] fn.t = "nil" -> Panic(st)
      [] OTHER -> Ret(newError(<<"not a function: %s", fn.t>>), st)

evalAssignmentExpression(node, env, st) ==
    LET val == Eval(node.Value, env, st) IN
    IF isError(val.v) \/ val.st.abort # "" THEN val
    ELSE CASE node.Name.k = "Identifier" ->
                LET got == Get(val.st.frames, env, node.Name.Value) IN
                IF ~got.ok
                THEN Ret(newError(<<"identifier not found: ", node.Name.Value>>), val.st)
                ELSE IF got.ReadOnly
                THEN Ret(newError(<<"cannot assign to constant '%s'", node.Name.Value>>), val.st)
                ELSE Ret(val.v, [val.st EXCEPT !.frames =
                                    Set(val.st.frames, env, node.Name.Value, val.v).fs])
           [] node.Name.k = "DotExpression" ->
                LET left == Eval(node.Name.Left, env, val.st) IN
                IF isError(left.v) \/ left.st.abort # "" THEN left
                ELSE IF node.Name.Right.k # "Identifier"
                THEN Ret(newError(<<"expected property name to be identifier, got %T",
                                    node.Name.Right.k>>), left.st)
                ELSE evalDotAssignment(left.v, node.Name.Right, val.v, left.st)
           [] OTHER -> Ret(newError(<<"invalid assignment target: %T", node.Name.k>>), val.st)

\* the order in which a map of n entries is ranged over, given a
\* permutation of 1..MaxPairs
RangeOrder(perm, n) == SelectSeq(perm, LAMBDA j : j <= n)

\* The loop of evalHashLiteral, `for keyNode, valueNode := range node.Pairs`:
\* node.Pairs is a Go map from key node to value node (one entry for each
\* pair of the source: the keys are pointers to distinct nodes), and Go
\* ranges over a map in an order it does not specify.  order is the order of
\* this run, order[i] the entry to visit now, pairs the map built so far.
evalHashPairsFrom(node, order, i, env, st, pairs) ==
    IF i > Len(order) THEN NewHash(pairs, st)
    ELSE LET key == Eval(node.Pairs[order[i]].Key, env, st) IN
         IF isError(key.v) \/ key.st.abort # "" THEN key
         ELSE IF key.v.t = "nil" THEN Panic(key.st)       \* nil.Type()
         ELSE IF ~Hashable(key.v)
         THEN Ret(newError(<<"unusable as hash key: %s", key.v.t>>), key.st)
         ELSE LET value == Eval(node.Pairs[order[i]].Value, env, key.st) IN
              IF isError(value.v) \/ value.st.abort # "" THEN value
              ELSE LET hashed == HashKeyOf(key.v, value.st) IN
                   evalHashPairsFrom(node, order, i + 1, env, hashed.st,
                                     PairsPut(pairs, hashed.key,
                                              HashPair(key.v, value.v)))

evalHashLiteral(node, env, st) ==
    IF Len(node.Pairs) <= 1
    THEN evalHashPairsFrom(node, [j \in 1..Len(node.Pairs) |-> j], 1, env, st, <<>>)
    ELSE IF st.ranges = <<>> \/ Len(node.Pairs) > MaxPairs
    THEN Ret(nil, [st EXCEPT !.abort = "cut"])
    ELSE evalHashPairsFrom(node, RangeOrder(Head(st.ranges), Len(node.Pairs)), 1,
                           env, [st EXCEPT !.ranges = Tail(@)], <<>>)

evalProgram(stmts, env, st) ==
    LET r == evalStatementsFrom(stmts, 1, env, st, nil, {"RETURN_VALUE", "ERROR"})
    IN Ret(unwrapReturnValue(r.v), r.st)

\* strings.HasSuffix(path, ".1y")
HasSuffix1y(path) ==
    /\ Len(path) >= 3
    /\ SubSeq(path, Len(path) - 2, Len(path)) = <<".", "1", "y">>

\* the Hash evalImportExpression wraps newEnv.Store() into, r being what
\* Eval(program, newEnv) left (its result is dropped)
importHash(newEnv, r) ==
    IF r.st.abort # "" THEN Ret(nil, r.st)
    ELSE NewHash([hk \in {HashKey(String(n)) :
                            n \in {m \in Names : r.st.frames[newEnv].store[m].ok}} |->
                     HashPair(String(hk.Value),
                              r.st.frames[newEnv].store[hk.Value].Value)],
                 r.st)

\* an import that evaluates whatever ParseProgram returned
importProgramUnchecked(path, parsed, st) ==
    importHash(Len(st.frames) + 1,
               evalProgram(parsed.stmts, Len(st.frames) + 1,
                           [st EXCEPT !.frames = Append(@, NewEnvironment),
                                      !.cells = parsed.p.ints]))

\* from `if len(p.Errors()) != 0` on, parsed being [p, stmts] of the
\* module.  The integers the module's parser allocated are cells of the
\* heap; those of a module that is not evaluated are garbage.
importProgram(path, parsed, st) ==
    IF Len(parsed.p.errors) # 0
    THEN Ret(newError(<<"parsing file %s failed: %s", path, parsed.p.errors>>), st)
    ELSE importHash(Len(st.frames) + 1,
                    evalProgram(parsed.stmts, Len(st.frames) + 1,
                                [st EXCEPT !.frames = Append(@, NewEnvironment),
                                           !.cells = parsed.p.ints]))

\* from readFileFromCurrentOrInterpreterDir on: st.files are the files
\* either directory holds
importFile(path, st) ==
    IF path \notin DOMAIN st.files
    THEN Ret(newError(<<"could not read file: %s", path>>), st)
    ELSE importProgram(path,
                       ParseProgram([ParserNew(LexerNew(st.files[path]))
                                        EXCEPT !.ints = st.cells]),
                       st)

evalImportExpression(ie, env, st) ==
    LET pathObj == Eval(ie.Path, env, st) IN
    IF pathObj.st.abort # "" THEN pathObj
    ELSE IF pathObj.v.t = "nil" THEN Panic(pathObj.st)       \* nil.Type()
    ELSE IF pathObj.v.t # "STRING"
    THEN Ret(newError(<<"import path must be a string, got %s", pathObj.v.t>>),
             pathObj.st)
    ELSE importFile(IF HasSuffix1y(pathObj.v.s) THEN pathObj.v.s
                    ELSE pathObj.v.s \o <<".", "1", "y">>,
                    pathObj.st)

\* the elif branches of evalIfExpression from branch i on
evalElifsFrom(ie, i, env, st) ==
    IF i > Len(ie.Elifs)
    THEN (IF ie.Alternative # NilNode
          THEN Eval(ie.Alternative, env, st)
          ELSE Ret(NULL, st))
    ELSE LET condition == Eval(ie.Elifs[i].Condition, env, st) IN
         IF isError(condition.v) \/ condition.st.abort # "" THEN condition
         ELSE IF isTruthy(condition.v)
         THEN Eval(ie.Elifs[i].Consequence, env, condition.st)
         ELSE evalElifsFrom(ie, i + 1, env, condition.st)

evalIfExpression(ie, env, st) ==
    LET condition == Eval(ie.Condition, env, st) IN
    IF isError(condition.v) \/ condition.st.abort # "" THEN condition
    ELSE IF isTruthy(condition.v)
    THEN Eval(ie.Consequence, env, condition.st)
    ELSE evalElifsFrom(ie, 1, env, condition.st)

\* evalWhileStatement running the body in the loop's own environment
RECURSIVE evalWhileInLoopEnv(_, _, _, _)
evalWhileInLoopEnv(ws, env, st, n) ==
    LET condition == Eval(ws.Condition, env, st) IN
    IF isError(condition.v) \/ condition.st.abort # "" THEN condition
    ELSE IF ~isTruthy(condition.v) THEN Ret(NULL, condition.st)
    ELSE IF n = 0 THEN Ret(nil, [condition.st EXCEPT !.abort = "cut"])
    ELSE LET r == evalLoopStatement(ws.Body, env, condition.st)
         IN IF r.st.abort # "" THEN r
            ELSE IF r.v.t = "BREAK" THEN Ret(NULL, r.st)
            ELSE IF r.v.t \in {"RETURN_VALUE", "ERROR"} THEN r
            ELSE evalWhileInLoopEnv(ws, env, r.st, n - 1)

\* evalWhileStatement with n iterations left before the model gives up
evalWhileFrom(ws, env, st, n) ==
    LET condition == Eval(ws.Condition, env, st) IN
    IF isError(condition.v) \/ condition.st.abort # "" THEN condition
    ELSE IF ~isTruthy(condition.v) THEN Ret(NULL, condition.st)
    ELSE IF n = 0 THEN Ret(nil, [condition.st EXCEPT !.abort = "cut"])
    ELSE LET fs == NewEnclosedEnvironment(condition.st.frames, env)
             r  == evalLoopStatement(ws.Body, Len(fs),
                                     [condition.st EXCEPT !.frames = fs])
         IN IF r.st.abort # "" THEN r
            ELSE IF r.v.t = "BREAK" THEN Ret(NULL, r.st)
            ELSE IF r.v.t \in {"RETURN_VALUE", "ERROR"} THEN r
            ELSE evalWhileFrom(ws, env, r.st, n - 1)

evalWhileStatement(ws, env, st) == evalWhileFrom(ws, env, st, MaxLoop)

Eval(node, env, st) ==
    IF st.abort # "" THEN Ret(nil, st) ELSE
    CASE node.k = "BlockStatement" -> evalBlockStatement(node, env, st)
      [] node.k = "ExpressionStatement" -> Eval(node.Expression, env, st)
      [] node.k = "ReturnStatement" ->
            LET val == Eval(node.ReturnValue, env, st) IN
            IF isError(val.v) THEN val ELSE Ret(ReturnValue(val.v), val.st)
      [] node.k = "IntegerLiteral" -> Ret(Integer(node.Value), st)
      [] node.k = "Boolean" -> Ret(nativeBoolToBooleanObject(node.Value), st)
      [] node.k = "PrefixExpression" ->
            LET right == Eval(node.Right, env, st) IN
            IF isError(right.v) THEN right
            ELSE evalPrefixExpression(node.Operator, right.v, right.st)
      [] node.k = "PostfixExpression" ->
            LET left == Eval(node.Left, env, st) IN
            IF isError(left.v) THEN left
            ELSE evalPostfixExpression(node.Operator, left.v, left.st)
      [] node.k = "InfixExpression" ->
            LET left == Eval(node.Left, env, st) IN
            IF isError(left.v) THEN left
            ELSE LET right == Eval(node.Right, env, left.st) IN
                 IF isError(right.v) THEN right
                 ELSE evalInfixExpression(node.Operator, left.v, right.v, right.st)
      [] node.k = "IfExpression" -> evalIfExpression(node, env, st)
      [] node.k = "LetStatement" ->
            LET val == Eval(node.Value, env, st) IN
            IF isError(val.v) \/ val.st.abort # "" THEN val
            ELSE LET made == NewVar(val.st.frames, env, node.Name.Value, val.v)
                 IN Ret(made.ret, [val.st EXCEPT !.frames = made.fs])
      [] node.k = "ConstStatement" ->
            LET val == Eval(node.Value, env, st) IN
            IF isError(val.v) \/ val.st.abort # "" THEN val
            ELSE LET made == NewConst(val.st.frames, env, node.Name.Value, val.v)
                 IN Ret(made.ret, [val.st EXCEPT !.frames = made.fs])
      [] node.k = "Identifier" -> evalIdentifier(node, env, st)
      [] node.k = "FunctionLiteral" ->
            Ret(Function(node.Parameters, node.Body, env), st)
      [] node.k = "CallExpression" ->
            LET function == Eval(node.Function, env, st) IN
            IF isError(function.v) \/ function.st.abort # "" THEN function
            ELSE LET args == evalExpressions(node.Arguments, env, function.st) IN
                 IF args.st.abort # "" THEN Ret(nil, args.st)
                 ELSE IF Len(args.vs) = 1 /\ isError(args.vs[1])
                 THEN Ret(args.vs[1], args.st)
                 ELSE applyFunction(function.v, args.vs, args.st)
      [] node.k = "Assignment" -> evalAssignmentExpression(node, env, st)
      [] node.k = "WhileStatement" -> evalWhileStatement(node, env, st)
      [] node.k = "BreakStatement" -> Ret(BREAK, st)
      [] node.k = "ContinueStatement" -> Ret(CNT, st)
      [] node.k = "StringLiteral" -> Ret(String(node.Value), st)
      [] node.k = "ArrayLiteral" ->
            LET elements == evalExpressions(node.Elements, env, st) IN
            IF elements.st.abort # "" THEN Ret(nil, elements.st)
            ELSE IF Len(elements.vs) = 1 /\ isError(elements.vs[1])
            THEN Ret(elements.vs[1], elements.st)
            ELSE LET made == NewArray(appended(elements.st.heap, elements.vs))
                 IN Ret(made.v, [elements.st EXCEPT !.heap = made.h])
      [] node.k = "IndexExpression" ->
            LET left == Eval(node.Left, env, st) IN
            IF isError(left.v) \/ left.st.abort # "" THEN left
            ELSE LET index == Eval(node.Index, env, left.st) IN
                 IF isError(index.v) \/ index.st.abort # "" THEN index
                 ELSE evalIndexExpression(left.v, index.v, index.st)
      [] node.k = "HashLiteral" -> evalHashLiteral(node, env, st)
      [] node.k = "ImportExpression" -> evalImportExpression(node, env, st)
      [] node.k = "DotExpression" ->
            LET left == Eval(node.Left, env, st) IN
            IF isError(left.v) \/ left.st.abort # "" THEN left
            ELSE IF node.Right.k # "Identifier"
            THEN Ret(newError(<<"expected property name to be identifier, got %T",
                                node.Right.k>>), left.st)
            ELSE evalDotExpression(left.v, node.Right, left.st)
      [] node.k \in {"ForStatement", "MultiDimensionalIndex", "nil"} ->
            Ret(nil, st)                                    \* no case: return nil

\* Object.Inspect(), with the object's type beside it
RECURSIVE Inspect(_, _)
Inspect(obj, cs) ==
    CASE obj.t = "INTEGER"      -> [t |-> "INTEGER", n |-> cs[obj.p], s |-> <<>>]
      [] obj.t = "BOOLEAN"      -> [t |-> "BOOLEAN", n |-> IF obj.b THEN 1 ELSE 0, s |-> <<>>]
      [] obj.t = "ERROR"        -> [t |-> "ERROR", n |-> 0, s |-> obj.msg]
      [] obj.t = "STRING"       -> [t |-> "STRING", n |-> 0, s |-> obj.s]
      [] obj.t = "RETURN_VALUE" -> Inspect(obj.v, cs)
      [] OTHER                  -> [t |-> obj.t, n |-> 0, s |-> <<>>]

-----------------------------------------------------------------------------
(* The sources the interpreter is run on.  Each family is one text with    *)
(* the integers a and b written into it in decimal.                        *)

DigitChar(d) == <<"0", "1", "2", "3", "4", "5", "6", "7", "8", "9">>[d + 1]

RECURSIVE Decimal(_)
Decimal(n) == IF n < 10 THEN <<DigitChar(n)>>
              ELSE Append(Decimal(n \div 10), DigitChar(n % 10))

RECURSIVE Times(_, _)
Times(text, n) == IF n = 0 THEN <<>> ELSE text \o Times(text, n - 1)

\* const f = fn(x) { if (x < 2) { x } else { f(x - 1) + f(x - 2) } }; f(a);
FibSource(a) ==
    <<"c", "o", "n", "s", "t", " ", "f", " ", "=", " ", "f", "n", "(",
         "x", ")", " ", "{", " ", "i", "f", " ", "(", "x", " ", "<", " ",
         "2", ")", " ", "{", " ", "x", " ", "}", " ", "e", "l", "s", "e",
         " ", "{", " ", "f", "(", "x", " ", "-", " ", "1", ")", " ", "+",
         " ", "f", "(", "x", " ", "-", " ", "2", ")", " ", "}", " ", "}",
         ";", " ", "f", "(">>
    \o Decimal(a)
    \o <<")", ";">>

\* let x = a; let g = fn(x) { x }; g(b); x;
ShadowSource(a, b) ==
    <<"l", "e", "t", " ", "x", " ", "=", " ">>
    \o Decimal(a)
    \o <<";", " ", "l", "e", "t", " ", "g", " ", "=", " ", "f", "n", "(",
         "x", ")", " ", "{", " ", "x", " ", "}", ";", " ", "g", "(">>
    \o Decimal(b)
    \o <<")", ";", " ", "x", ";">>

\* let g = fn(y) { y }; g(a);
FreshSource(a) ==
    <<"l", "e", "t", " ", "g", " ", "=", " ", "f", "n", "(", "y", ")",
         " ", "{", " ", "y", " ", "}", ";", " ", "g", "(">>
    \o Decimal(a)
    \o <<")", ";">>

\* let h = fn() { y }; let g = fn(y) { h() }; g(a);
DynSource(a) ==
    <<"l", "e", "t", " ", "h", " ", "=", " ", "f", "n", "(", ")", " ",
         "{", " ", "y", " ", "}", ";", " ", "l", "e", "t", " ", "g", " ",
         "=", " ", "f", "n", "(", "y", ")", " ", "{", " ", "h", "(", ")",
         " ", "}", ";", " ", "g", "(">>
    \o Decimal(a)
    \o <<")", ";">>

\* const k = a; k = b;
ConstSource(a, b) ==
    <<"c", "o", "n", "s", "t", " ", "k", " ", "=", " ">>
    \o Decimal(a)
    \o <<";", " ", "k", " ", "=", " ">>
    \o Decimal(b)
    \o <<";">>

\* const k = a; let s = fn() { k = b }; s();
ConstFnSource(a, b) ==
    <<"c", "o", "n", "s", "t", " ", "k", " ", "=", " ">>
    \o Decimal(a)
    \o <<";", " ", "l", "e", "t", " ", "s", " ", "=", " ", "f", "n", "(",
         ")", " ", "{", " ", "k", " ", "=", " ">>
    \o Decimal(b)
    \o <<" ", "}", ";", " ", "s", "(", ")", ";">>

\* const k = a; let s = fn() { let g = fn() { k = b }; g() }; s();
ConstNestSource(a, b) ==
    <<"c", "o", "n", "s", "t", " ", "k", " ", "=", " ">>
    \o Decimal(a)
    \o <<";", " ", "l", "e", "t", " ", "s", " ", "=", " ", "f", "n", "(",
         ")", " ", "{", " ", "l", "e", "t", " ", "g", " ", "=", " ", "f",
         "n", "(", ")", " ", "{", " ", "k", " ", "=", " ">>
    \o Decimal(b)
    \o <<" ", "}", ";", " ", "g", "(", ")", " ", "}", ";", " ", "s", "(",
         ")", ";">>

\* const k = a; k += b;
ConstOpSource(a, b) ==
    <<"c", "o", "n", "s", "t", " ", "k", " ", "=", " ">>
    \o Decimal(a)
    \o <<";", " ", "k", " ", "+", "=", " ">>
    \o Decimal(b)
    \o <<";">>

\* let i = a; let c = fn() { i = i + 1; i };
CounterHead(a) ==
    <<"l", "e", "t", " ", "i", " ", "=", " ">>
    \o Decimal(a)
    \o <<";", " ", "l", "e", "t", " ", "c", " ", "=", " ", "f", "n", "(",
         ")", " ", "{", " ", "i", " ", "=", " ", "i", " ", "+", " ", "1",
         ";", " ", "i", " ", "}", ";">>

\* let m = fn() { let i = a; fn() { i = i + 1; i } }; let c = m();
FactoryHead(a) ==
    <<"l", "e", "t", " ", "m", " ", "=", " ", "f", "n", "(", ")", " ",
         "{", " ", "l", "e", "t", " ", "i", " ", "=", " ">>
    \o Decimal(a)
    \o <<";", " ", "f", "n", "(", ")", " ", "{", " ", "i", " ", "=", " ",
         "i", " ", "+", " ", "1", ";", " ", "i", " ", "}", " ", "}", ";",
         " ", "l", "e", "t", " ", "c", " ", "=", " ", "m", "(", ")", ";">>

\*  c();
CallC ==
    <<" ", "c", "(", ")", ";">>

\* let a = a; a++; a;
IncrSource(a) ==
    <<"l", "e", "t", " ", "a", " ", "=", " ">>
    \o Decimal(a)
    \o <<";", " ", "a", "+", "+", ";", " ", "a", ";">>

\* let f = fn() { let a = a; a++; a }; f(); f();
TwiceSource(a) ==
    <<"l", "e", "t", " ", "f", " ", "=", " ", "f", "n", "(", ")", " ",
         "{", " ", "l", "e", "t", " ", "a", " ", "=", " ">>
    \o Decimal(a)
    \o <<";", " ", "a", "+", "+", ";", " ", "a", " ", "}", ";", " ", "f",
         "(", ")", ";", " ", "f", "(", ")", ";">>

\* let f = fn() { --a }; f(); f();
PreDecSource(a) ==
    <<"l", "e", "t", " ", "f", " ", "=", " ", "f", "n", "(", ")", " ",
         "{", " ", "-", "-">>
    \o Decimal(a)
    \o <<" ", "}", ";", " ", "f", "(", ")", ";", " ", "f", "(", ")", ";">>

\* let x = if (true) { break }; x;
LetBreakSource ==
    <<"l", "e", "t", " ", "x", " ", "=", " ", "i", "f", " ", "(", "t",
         "r", "u", "e", ")", " ", "{", " ", "b", "r", "e", "a", "k", " ",
         "}", ";", " ", "x", ";">>

\* let x = if (true) { return a }; x;
LetReturnSource(a) ==
    <<"l", "e", "t", " ", "x", " ", "=", " ", "i", "f", " ", "(", "t",
         "r", "u", "e", ")", " ", "{", " ", "r", "e", "t", "u", "r", "n",
         " ">>
    \o Decimal(a)
    \o <<" ", "}", ";", " ", "x", ";">>

\* let i = 0; while (i < a) { i = i + 1 } i;
WhileSource(a) ==
    <<"l", "e", "t", " ", "i", " ", "=", " ", "0", ";", " ", "w", "h",
         "i", "l", "e", " ", "(", "i", " ", "<", " ">>
    \o Decimal(a)
    \o <<")", " ", "{", " ", "i", " ", "=", " ", "i", " ", "+", " ", "1",
         " ", "}", " ", "i", ";">>

\* let x = a;
SemiLetSource(a) ==
    <<"l", "e", "t", " ", "x", " ", "=", " ">>
    \o Decimal(a)
    \o <<";">>

\* const k = a;
SemiConstSource(a) ==
    <<"c", "o", "n", "s", "t", " ", "k", " ", "=", " ">>
    \o Decimal(a)
    \o <<";">>

\* return a;
SemiReturnSource(a) ==
    <<"r", "e", "t", "u", "r", "n", " ">>
    \o Decimal(a)
    \o <<";">>

\* a;
SemiExpressionSource(a) ==
    Decimal(a)
    \o <<";">>

\* break;
SemiBreakSource ==
    <<"b", "r", "e", "a", "k", ";">>

\* continue;
SemiContinueSource ==
    <<"c", "o", "n", "t", "i", "n", "u", "e", ";">>

\* let i = 0; while (i < a) { i = i + 1 }; i;
SemiWhileSource(a) ==
    <<"l", "e", "t", " ", "i", " ", "=", " ", "0", ";", " ", "w", "h",
         "i", "l", "e", " ", "(", "i", " ", "<", " ">>
    \o Decimal(a)
    \o <<")", " ", "{", " ", "i", " ", "=", " ", "i", " ", "+", " ", "1",
         " ", "}", ";", " ", "i", ";">>

\* for (let i = 0; i < a; i = i + 1) { i };
SemiForSource(a) ==
    <<"f", "o", "r", " ", "(", "l", "e", "t", " ", "i", " ", "=", " ",
         "0", ";", " ", "i", " ", "<", " ">>
    \o Decimal(a)
    \o <<";", " ", "i", " ", "=", " ", "i", " ", "+", " ", "1", ")", " ",
         "{", " ", "i", " ", "}", ";">>

\* for (let i = 0; i < a; i = i + 1) { i } a;
ForSource(a) ==
    <<"f", "o", "r", " ", "(", "l", "e", "t", " ", "i", " ", "=", " ",
         "0", ";", " ", "i", " ", "<", " ">>
    \o Decimal(a)
    \o <<";", " ", "i", " ", "=", " ", "i", " ", "+", " ", "1", ")", " ",
         "{", " ", "i", " ", "}", " ">>
    \o Decimal(a)
    \o <<";">>

\* let i = a; let c = fn() { i = i + 1; i }; c(); ... c();      (b calls)
CounterSource(a, b) == CounterHead(a) \o Times(CallC, b)

\* let m = fn() { let i = a; fn() { i = i + 1; i } }; let c = m(); c(); ... c();
FactorySource(a, b) == FactoryHead(a) \o Times(CallC, b)

\* let x = [3, 1, 2]; let y = x;
PushHead ==
    <<"l", "e", "t", " ", "x", " ", "=", " ", "[", "3", ",", " ", "1",
         ",", " ", "2", "]", ";", " ", "l", "e", "t", " ", "y", " ", "=",
         " ", "x", ";">>

\*  push(x, 7);
PushX ==
    <<" ", "p", "u", "s", "h", "(", "x", ",", " ", "7", ")", ";">>

\*  let n = len(y); let r = push(x, a); len(y); len(r); r[n]; y[n]; y[0]; y[n - 1];
PushTail(a) ==
    <<" ", "l", "e", "t", " ", "n", " ", "=", " ", "l", "e", "n", "(",
         "y", ")", ";", " ", "l", "e", "t", " ", "r", " ", "=", " ", "p",
         "u", "s", "h", "(", "x", ",", " ">>
    \o Decimal(a)
    \o <<")", ";", " ", "l", "e", "n", "(", "y", ")", ";", " ", "l", "e",
         "n", "(", "r", ")", ";", " ", "r", "[", "n", "]", ";", " ", "y",
         "[", "n", "]", ";", " ", "y", "[", "0", "]", ";", " ", "y", "[",
         "n", " ", "-", " ", "1", "]", ";">>

\* let x = [3, 1, 2]; let y = x; push(x, 7); ... push(x, 7);     (b pushes)
\* let n = len(y); let r = push(x, a); len(y); len(r); r[n]; y[n]; y[0]; y[n - 1];
PushSource(a, b) == PushHead \o Times(PushX, b) \o PushTail(a)

\* let x = a;
ReplBadLine1(a) ==
    <<"l", "e", "t", " ", "x", " ", "=", " ">>
    \o Decimal(a)
    \o <<";">>

\* x = b; let = 1;
ReplBadLine2(b) ==
    <<"x", " ", "=", " ">>
    \o Decimal(b)
    \o <<";", " ", "l", "e", "t", " ", "=", " ", "1", ";">>

\* x;
ReplBadLine3 ==
    <<"x", ";">>

\* let x = a; import("m");
ImportBadSource(a) ==
    <<"l", "e", "t", " ", "x", " ", "=", " ">>
    \o Decimal(a)
    \o <<";", " ", "i", "m", "p", "o", "r", "t", "(", "\"", "m", "\"", ")",
         ";">>

\* let k = [b]; let = 1;
ImportBadModule(b) ==
    <<"l", "e", "t", " ", "k", " ", "=", " ", "[">>
    \o Decimal(b)
    \o <<"]", ";", " ", "l", "e", "t", " ", "=", " ", "1", ";">>

\* m.1y
ModulePath ==
    <<"m", ".", "1", "y">>

\* let x = a; let r = import("m"); let s = import("m"); r.k; s.k; x;
ImportSource(a) ==
    <<"l", "e", "t", " ", "x", " ", "=", " ">>
    \o Decimal(a)
    \o <<";", " ", "l", "e", "t", " ", "r", " ", "=", " ", "i", "m", "p",
         "o", "r", "t", "(", "\"", "m", "\"", ")", ";", " ", "l", "e", "t",
         " ", "s", " ", "=", " ", "i", "m", "p", "o", "r", "t", "(", "\"",
         "m", "\"", ")", ";", " ", "r", ".", "k", ";", " ", "s", ".", "k",
         ";", " ", "x", ";">>

\* let k = b; let f = fn(y) { y }; f(k);
ImportModule(b) ==
    <<"l", "e", "t", " ", "k", " ", "=", " ">>
    \o Decimal(b)
    \o <<";", " ", "l", "e", "t", " ", "f", " ", "=", " ", "f", "n", "(",
         "y", ")", " ", "{", " ", "y", " ", "}", ";", " ", "f", "(", "k",
         ")", ";">>

\* let h = {"a": a}; let g = h; h.k = b; h.k; h["k"]; g.k; g.a; h.m; h.a = h.a + 1; g["a"];
DotSource(a, b) ==
    <<"l", "e", "t", " ", "h", " ", "=", " ", "{", "\"", "a", "\"", ":",
         " ">>
    \o Decimal(a)
    \o <<"}", ";", " ", "l", "e", "t", " ", "g", " ", "=", " ", "h", ";",
         " ", "h", ".", "k", " ", "=", " ">>
    \o Decimal(b)
    \o <<";", " ", "h", ".", "k", ";", " ", "h", "[", "\"", "k", "\"", "]",
         ";", " ", "g", ".", "k", ";", " ", "g", ".", "a", ";", " ", "h",
         ".", "m", ";", " ", "h", ".", "a", " ", "=", " ", "h", ".", "a",
         " ", "+", " ", "1", ";", " ", "g", "[", "\"", "a", "\"", "]", ";">>

\* let x = a; x.k;
DotGetSource(a) ==
    <<"l", "e", "t", " ", "x", " ", "=", " ">>
    \o Decimal(a)
    \o <<";", " ", "x", ".", "k", ";">>

\* let x = a; x.k = b;
DotSetSource(a, b) ==
    <<"l", "e", "t", " ", "x", " ", "=", " ">>
    \o Decimal(a)
    \o <<";", " ", "x", ".", "k", " ", "=", " ">>
    \o Decimal(b)
    \o <<";">>

\* let x = a - b; x / 0;
DivZeroSource(a, b) ==
    <<"l", "e", "t", " ", "x", " ", "=", " ">>
    \o Decimal(a)
    \o <<" ", "-", " ">>
    \o Decimal(b)
    \o <<";", " ", "x", " ", "/", " ", "0", ";">>

\* let x = a - b; x % 0;
ModZeroSource(a, b) ==
    <<"l", "e", "t", " ", "x", " ", "=", " ">>
    \o Decimal(a)
    \o <<" ", "-", " ">>
    \o Decimal(b)
    \o <<";", " ", "x", " ", "%", " ", "0", ";">>

\* let i = 0; while (i < a) { i = i + 1; if (i == 2) { break; i = 9 } } i;
BreakIfSource(a) ==
    <<"l", "e", "t", " ", "i", " ", "=", " ", "0", ";", " ", "w", "h",
         "i", "l", "e", " ", "(", "i", " ", "<", " ">>
    \o Decimal(a)
    \o <<")", " ", "{", " ", "i", " ", "=", " ", "i", " ", "+", " ", "1",
         ";", " ", "i", "f", " ", "(", "i", " ", "=", "=", " ", "2", ")",
         " ", "{", " ", "b", "r", "e", "a", "k", ";", " ", "i", " ", "=",
         " ", "9", " ", "}", " ", "}", " ", "i", ";">>

\* let i = 0; let k = 0; while (i < a) { i = i + 1; if (i == 2) { continue; k = 9 } k = k + 1 } k;
ContinueIfSource(a) ==
    <<"l", "e", "t", " ", "i", " ", "=", " ", "0", ";", " ", "l", "e",
         "t", " ", "k", " ", "=", " ", "0", ";", " ", "w", "h", "i", "l",
         "e", " ", "(", "i", " ", "<", " ">>
    \o Decimal(a)
    \o <<")", " ", "{", " ", "i", " ", "=", " ", "i", " ", "+", " ", "1",
         ";", " ", "i", "f", " ", "(", "i", " ", "=", "=", " ", "2", ")",
         " ", "{", " ", "c", "o", "n", "t", "i", "n", "u", "e", ";", " ",
         "k", " ", "=", " ", "9", " ", "}", " ", "k", " ", "=", " ", "k",
         " ", "+", " ", "1", " ", "}", " ", "k", ";">>

\* let r = import("m"); a;
ImportErrSource(a) ==
    <<"l", "e", "t", " ", "r", " ", "=", " ", "i", "m", "p", "o", "r",
         "t", "(", "\"", "m", "\"", ")", ";", " ">>
    \o Decimal(a)
    \o <<";">>

\* let k = b / 0; let y = 1;
ImportErrModule(b) ==
    <<"l", "e", "t", " ", "k", " ", "=", " ">>
    \o Decimal(b)
    \o <<" ", "/", " ", "0", ";", " ", "l", "e", "t", " ", "y", " ", "=",
         " ", "1", ";">>

\* const k = a; let f = fn(k) { k }; f(b);
ParamErrSource(a, b) ==
    <<"c", "o", "n", "s", "t", " ", "k", " ", "=", " ">>
    \o Decimal(a)
    \o <<";", " ", "l", "e", "t", " ", "f", " ", "=", " ", "f", "n", "(",
         "k", ")", " ", "{", " ", "k", " ", "}", ";", " ", "f", "(">>
    \o Decimal(b)
    \o <<")", ";">>

\* let f = fn() { let y = 1 + if (true) { return a }; a + 1 }; f();
ReturnOpSource(a) ==
    <<"l", "e", "t", " ", "f", " ", "=", " ", "f", "n", "(", ")", " ",
         "{", " ", "l", "e", "t", " ", "y", " ", "=", " ", "1", " ", "+",
         " ", "i", "f", " ", "(", "t", "r", "u", "e", ")", " ", "{", " ",
         "r", "e", "t", "u", "r", "n", " ">>
    \o Decimal(a)
    \o <<" ", "}", ";", " ">>
    \o Decimal(a)
    \o <<" ", "+", " ", "1", " ", "}", ";", " ", "f", "(", ")", ";">>

\* let f = fn() { let i = 0; while (i < 3) { i = i + 1; if (i == 2) { return a } } 9 }; let g = fn() { f(); b }; f(); g();
ReturnNestSource(a, b) ==
    <<"l", "e", "t", " ", "f", " ", "=", " ", "f", "n", "(", ")", " ",
         "{", " ", "l", "e", "t", " ", "i", " ", "=", " ", "0", ";", " ",
         "w", "h", "i", "l", "e", " ", "(", "i", " ", "<", " ", "3", ")",
         " ", "{", " ", "i", " ", "=", " ", "i", " ", "+", " ", "1", ";",
         " ", "i", "f", " ", "(", "i", " ", "=", "=", " ", "2", ")", " ",
         "{", " ", "r", "e", "t", "u", "r", "n", " ">>
    \o Decimal(a)
    \o <<" ", "}", " ", "}", " ", "9", " ", "}", ";", " ", "l", "e", "t",
         " ", "g", " ", "=", " ", "f", "n", "(", ")", " ", "{", " ", "f",
         "(", ")", ";", " ">>
    \o Decimal(b)
    \o <<" ", "}", ";", " ", "f", "(", ")", ";", " ", "g", "(", ")", ";">>

\* let a = [1, 2, 3]; let c = a + [a]; push(a, b); c[3];
ConcatSource(a, b) ==
    <<"l", "e", "t", " ", "a", " ", "=", " ", "[", "1", ",", " ", "2",
         ",", " ", "3", "]", ";", " ", "l", "e", "t", " ", "c", " ", "=",
         " ", "a", " ", "+", " ", "[">>
    \o Decimal(a)
    \o <<"]", ";", " ", "p", "u", "s", "h", "(", "a", ",", " ">>
    \o Decimal(b)
    \o <<")", ";", " ", "c", "[", "3", "]", ";">>

\* let x = a; x 
CompoundHead(a) ==
    <<"l", "e", "t", " ", "x", " ", "=", " ">>
    \o Decimal(a)
    \o <<";", " ", "x", " ">>

\*  2; x;
CompoundTail ==
    <<" ", "2", ";", " ", "x", ";">>

\* the compound operators of the families named after them, without `=`
CompoundFamilies == {"addassign", "subassign", "mulassign", "divassign",
                     "modassign", "shlassign", "shrassign", "powassign"}

CompoundOperator(fam) ==
    CASE fam = "addassign" -> <<"+">>
      [] fam = "subassign" -> <<"-">>
      [] fam = "mulassign" -> <<"*">>
      [] fam = "divassign" -> <<"/">>
      [] fam = "modassign" -> <<"%">>
      [] fam = "shlassign" -> <<"<", "<">>
      [] fam = "shrassign" -> <<">", ">">>
      [] fam = "powassign" -> <<"*", "*">>

\* let x = a; x OP= 2; x;
CompoundSource(fam, a) ==
    CompoundHead(a) \o CompoundOperator(fam) \o <<"=">> \o CompoundTail

\* let x = a; let h = {"k": x = x * 2 + 1, "k": x = x * 2 + 2}; x; h.k;
HashOrderSource(a) ==
    <<"l", "e", "t", " ", "x", " ", "=", " ">>
    \o Decimal(a)
    \o <<";", " ", "l", "e", "t", " ", "h", " ", "=", " ", "{", "\"", "k",
         "\"", ":", " ", "x", " ", "=", " ", "x", " ", "*", " ", "2", " ",
         "+", " ", "1", ",", " ", "\"", "k", "\"", ":", " ", "x", " ", "=",
         " ", "x", " ", "*", " ", "2", " ", "+", " ", "2", "}", ";", " ",
         "x", ";", " ", "h", ".", "k", ";">>

\* let x = a; let h = {"a": x / 0, "b": x = 9}; x;
HashErrSource(a) ==
    <<"l", "e", "t", " ", "x", " ", "=", " ">>
    \o Decimal(a)
    \o <<";", " ", "l", "e", "t", " ", "h", " ", "=", " ", "{", "\"", "a",
         "\"", ":", " ", "x", " ", "/", " ", "0", ",", " ", "\"", "b", "\"",
         ":", " ", "x", " ", "=", " ", "9", "}", ";", " ", "x", ";">>

\* let x = a; let r = [x = x * 2 + 1, x = x * 2 + 2]; x; r[0]; r[1];
ArrayOrderSource(a) ==
    <<"l", "e", "t", " ", "x", " ", "=", " ">>
    \o Decimal(a)
    \o <<";", " ", "l", "e", "t", " ", "r", " ", "=", " ", "[", "x", " ",
         "=", " ", "x", " ", "*", " ", "2", " ", "+", " ", "1", ",", " ",
         "x", " ", "=", " ", "x", " ", "*", " ", "2", " ", "+", " ", "2",
         "]", ";", " ", "x", ";", " ", "r", "[", "0", "]", ";", " ", "r",
         "[", "1", "]", ";">>

\* let x = a; let r = [x / 0, x = 9]; x;
ArrayErrSource(a) ==
    <<"l", "e", "t", " ", "x", " ", "=", " ">>
    \o Decimal(a)
    \o <<";", " ", "l", "e", "t", " ", "r", " ", "=", " ", "[", "x", " ",
         "/", " ", "0", ",", " ", "x", " ", "=", " ", "9", "]", ";", " ",
         "x", ";">>

\* let x = a; let f = fn(p, q) { p * 10 + q }; let r = f(x = x + 1, x = x * 2); r; x;
\* let x = a; let f = fn(p, q) { x = 7 }; f(x / 0, x = 9); x;
\* let x = a; y(x = 9); x;
CalleeErrSource(a) ==
    <<"l", "e", "t", " ", "x", " ", "=", " ">>
    \o Decimal(a)
    \o <<";", " ", "y", "(", "x", " ", "=", " ", "9", ")", ";", " ", "x",
         ";">>

\* let x = a; let f = fn(m, n) { m * 10 + n }; let r = f(x = x + 1, x = x * 2); r; x;
CallOrderSource(a) ==
    <<"l", "e", "t", " ", "x", " ", "=", " ">>
    \o Decimal(a)
    \o <<";", " ", "l", "e", "t", " ", "f", " ", "=", " ", "f", "n", "(",
         "m", ",", " ", "n", ")", " ", "{", " ", "m", " ", "*", " ", "1",
         "0", " ", "+", " ", "n", " ", "}", ";", " ", "l", "e", "t", " ",
         "r", " ", "=", " ", "f", "(", "x", " ", "=", " ", "x", " ", "+",
         " ", "1", ",", " ", "x", " ", "=", " ", "x", " ", "*", " ", "2",
         ")", ";", " ", "r", ";", " ", "x", ";">>

\* let x = a; let f = fn(m, n) { x = 7 }; f(x / 0, x = 9); x;
CallErrSource(a) ==
    <<"l", "e", "t", " ", "x", " ", "=", " ">>
    \o Decimal(a)
    \o <<";", " ", "l", "e", "t", " ", "f", " ", "=", " ", "f", "n", "(",
         "m", ",", " ", "n", ")", " ", "{", " ", "x", " ", "=", " ", "7",
         " ", "}", ";", " ", "f", "(", "x", " ", "/", " ", "0", ",", " ",
         "x", " ", "=", " ", "9", ")", ";", " ", "x", ";">>

\* let i = 0; let s = 0; while (i < a) { let k = i * 2; s = s + k; i = i + 1; } s; i; k;
WhileLetSource(a) ==
    <<"l", "e", "t", " ", "i", " ", "=", " ", "0", ";", " ", "l", "e",
         "t", " ", "s", " ", "=", " ", "0", ";", " ", "w", "h", "i", "l",
         "e", " ", "(", "i", " ", "<", " ">>
    \o Decimal(a)
    \o <<")", " ", "{", " ", "l", "e", "t", " ", "k", " ", "=", " ", "i",
         " ", "*", " ", "2", ";", " ", "s", " ", "=", " ", "s", " ", "+",
         " ", "k", ";", " ", "i", " ", "=", " ", "i", " ", "+", " ", "1",
         ";", " ", "}", " ", "s", ";", " ", "i", ";", " ", "k", ";">>

\* let s = 0; for (let i = 0; i < a; i = i + 1) { s = s + 1; } s;
ForCountSource(a) ==
    <<"l", "e", "t", " ", "s", " ", "=", " ", "0", ";", " ", "f", "o",
         "r", " ", "(", "l", "e", "t", " ", "i", " ", "=", " ", "0", ";",
         " ", "i", " ", "<", " ">>
    \o Decimal(a)
    \o <<";", " ", "i", " ", "=", " ", "i", " ", "+", " ", "1", ")", " ",
         "{", " ", "s", " ", "=", " ", "s", " ", "+", " ", "1", ";", " ",
         "}", " ", "s", ";">>

\* let x = a; let f = fn(m) { let y = m * 2; x = y + 1; y }; f(x); x;
SetFramesSource(a) ==
    <<"l", "e", "t", " ", "x", " ", "=", " ">>
    \o Decimal(a)
    \o <<";", " ", "l", "e", "t", " ", "f", " ", "=", " ", "f", "n", "(",
         "m", ")", " ", "{", " ", "l", "e", "t", " ", "y", " ", "=", " ",
         "m", " ", "*", " ", "2", ";", " ", "x", " ", "=", " ", "y", " ",
         "+", " ", "1", ";", " ", "y", " ", "}", ";", " ", "f", "(", "x",
         ")", ";", " ", "x", ";">>

\* let x = a; let f = fn() { let x = 1; let g = fn() { x = 5 }; g(); x }; f(); x;
SetNearestSource(a) ==
    <<"l", "e", "t", " ", "x", " ", "=", " ">>
    \o Decimal(a)
    \o <<";", " ", "l", "e", "t", " ", "f", " ", "=", " ", "f", "n", "(",
         ")", " ", "{", " ", "l", "e", "t", " ", "x", " ", "=", " ", "1",
         ";", " ", "l", "e", "t", " ", "g", " ", "=", " ", "f", "n", "(",
         ")", " ", "{", " ", "x", " ", "=", " ", "5", " ", "}", ";", " ",
         "g", "(", ")", ";", " ", "x", " ", "}", ";", " ", "f", "(", ")",
         ";", " ", "x", ";">>

\* let x = a; let f = fn(m, n) { x = 9; m }; f(1); x;
FewArgsSource(a) ==
    <<"l", "e", "t", " ", "x", " ", "=", " ">>
    \o Decimal(a)
    \o <<";", " ", "l", "e", "t", " ", "f", " ", "=", " ", "f", "n", "(",
         "m", ",", " ", "n", ")", " ", "{", " ", "x", " ", "=", " ", "9",
         ";", " ", "m", " ", "}", ";", " ", "f", "(", "1", ")", ";", " ",
         "x", ";">>

\* let f = fn(m) { m + 1 }; f(a, 7);
MoreArgsSource(a) ==
    <<"l", "e", "t", " ", "f", " ", "=", " ", "f", "n", "(", "m", ")",
         " ", "{", " ", "m", " ", "+", " ", "1", " ", "}", ";", " ", "f",
         "(">>
    \o Decimal(a)
    \o <<",", " ", "7", ")", ";">>

\* let x = a; x * "s";
IntTimesStringSource(a) ==
    <<"l", "e", "t", " ", "x", " ", "=", " ">>
    \o Decimal(a)
    \o <<";", " ", "x", " ", "*", " ", "\"", "s", "\"", ";">>

\* let x = 0 - a; "s" * x;
StringTimesNegSource(a) ==
    <<"l", "e", "t", " ", "x", " ", "=", " ", "0", " ", "-", " ">>
    \o Decimal(a)
    \o <<";", " ", "\"", "s", "\"", " ", "*", " ", "x", ";">>

\* let x = a; x * [1];
IntTimesArraySource(a) ==
    <<"l", "e", "t", " ", "x", " ", "=", " ">>
    \o Decimal(a)
    \o <<";", " ", "x", " ", "*", " ", "[", "1", "]", ";">>

\* let f = fn() { }; f() + a;
EmptyBodySource(a) ==
    <<"l", "e", "t", " ", "f", " ", "=", " ", "f", "n", "(", ")", " ",
         "{", " ", "}", ";", " ", "f", "(", ")", " ", "+", " ">>
    \o Decimal(a)
    \o <<";">>

\* const k = a; k++; k;
ConstIncSource(a) ==
    <<"c", "o", "n", "s", "t", " ", "k", " ", "=", " ">>
    \o Decimal(a)
    \o <<";", " ", "k", "+", "+", ";", " ", "k", ";">>

\* const k = a; let y = k; --y; k;
ConstAliasSource(a) ==
    <<"c", "o", "n", "s", "t", " ", "k", " ", "=", " ">>
    \o Decimal(a)
    \o <<";", " ", "l", "e", "t", " ", "y", " ", "=", " ", "k", ";", " ",
         "-", "-", "y", ";", " ", "k", ";">>

\* let x = a; let y = x; ++x; y;
AliasIncSource(a) ==
    <<"l", "e", "t", " ", "x", " ", "=", " ">>
    \o Decimal(a)
    \o <<";", " ", "l", "e", "t", " ", "y", " ", "=", " ", "x", ";", " ",
         "+", "+", "x", ";", " ", "y", ";">>

\* const k = a; let y = k; y = y + 1; y += 1; k;
ConstAssignSource(a) ==
    <<"c", "o", "n", "s", "t", " ", "k", " ", "=", " ">>
    \o Decimal(a)
    \o <<";", " ", "l", "e", "t", " ", "y", " ", "=", " ", "k", ";", " ",
         "y", " ", "=", " ", "y", " ", "+", " ", "1", ";", " ", "y", " ",
         "+", "=", " ", "1", ";", " ", "k", ";">>

\* let k = a; let h = {a: 7, a + 1: 8}; h[k]; k++; h[k]; --k; --k; h[k];
HashKeySource(a) ==
    <<"l", "e", "t", " ", "k", " ", "=", " ">>
    \o Decimal(a)
    \o <<";", " ", "l", "e", "t", " ", "h", " ", "=", " ", "{">>
    \o Decimal(a)
    \o <<":", " ", "7", ",", " ">>
    \o Decimal(a)
    \o <<" ", "+", " ", "1", ":", " ", "8", "}", ";", " ", "h", "[", "k",
         "]", ";", " ", "k", "+", "+", ";", " ", "h", "[", "k", "]", ";",
         " ", "-", "-", "k", ";", " ", "-", "-", "k", ";", " ", "h", "[",
         "k", "]", ";">>

\* let k = a; let h = {a: 7, a + 1: 8}; k++; h[k];
HashKeyFreshSource(a) ==
    <<"l", "e", "t", " ", "k", " ", "=", " ">>
    \o Decimal(a)
    \o <<";", " ", "l", "e", "t", " ", "h", " ", "=", " ", "{">>
    \o Decimal(a)
    \o <<":", " ", "7", ",", " ">>
    \o Decimal(a)
    \o <<" ", "+", " ", "1", ":", " ", "8", "}", ";", " ", "k", "+", "+",
         ";", " ", "h", "[", "k", "]", ";">>

Families0 == {"letbreak", "semibreak", "semicontinue"}
Families1 == {"fresh", "dyn", "incr", "twice", "predec", "letreturn",
              "while", "for", "semilet", "semiconst", "semireturn",
              "semiexpression", "semiwhile", "semifor", "dotget",
              "breakif", "continueif", "returnop", "hashorder",
              "hasherr", "arrayorder", "arrayerr", "callorder",
              "callerr", "calleeerr", "whilelet", "forcount",
              "setframes", "setnearest", "fewargs", "moreargs",
              "inttimesstring", "stringtimesneg", "inttimesarray",
              "emptybody", "constinc", "constalias", "aliasinc",
              "constassign", "hashkey", "hashkeyfresh"}
              \cup CompoundFamilies
Families2 == {"shadow", "const", "constfn", "constnest", "constop", "push",
              "replbad", "importbad", "import", "dot", "dotset",
              "divzero", "modzero", "importerr", "paramerr",
              "returnnest", "concat"}
FamiliesN == {"counter", "factory"}

Programs ==
    [fam : Families0, a : {0}, b : {0}]
    \cup [fam : {"fib"}, a : 0..MaxFib, b : {0}]
    \cup [fam : Families1, a : 0..MaxArg, b : {0}]
    \cup [fam : Families2, a : 0..MaxArg, b : 0..MaxArg]
    \cup [fam : FamiliesN, a : 0..MaxArg, b : 1..MaxArg]

Source(p) ==
    CASE p.fam = "fib"            -> FibSource(p.a)
      [] p.fam = "shadow"         -> ShadowSource(p.a, p.b)
      [] p.fam = "fresh"          -> FreshSource(p.a)
      [] p.fam = "dyn"            -> DynSource(p.a)
      [] p.fam = "const"          -> ConstSource(p.a, p.b)
      [] p.fam = "constfn"        -> ConstFnSource(p.a, p.b)
      [] p.fam = "constnest"      -> ConstNestSource(p.a, p.b)
      [] p.fam = "constop"        -> ConstOpSource(p.a, p.b)
      [] p.fam = "counter"        -> CounterSource(p.a, p.b)
      [] p.fam = "factory"        -> FactorySource(p.a, p.b)
      [] p.fam = "incr"           -> IncrSource(p.a)
      [] p.fam = "twice"          -> TwiceSource(p.a)
      [] p.fam = "predec"         -> PreDecSource(p.a)
      [] p.fam = "letbreak"       -> LetBreakSource
      [] p.fam = "letreturn"      -> LetReturnSource(p.a)
      [] p.fam = "while"          -> WhileSource(p.a)
      [] p.fam = "for"            -> ForSource(p.a)
      [] p.fam = "semilet"        -> SemiLetSource(p.a)
      [] p.fam = "semiconst"      -> SemiConstSource(p.a)
      [] p.fam = "semireturn"     -> SemiReturnSource(p.a)
      [] p.fam = "semiexpression" -> SemiExpressionSource(p.a)
      [] p.fam = "semibreak"      -> SemiBreakSource
      [] p.fam = "semicontinue"   -> SemiContinueSource
      [] p.fam = "semiwhile"      -> SemiWhileSource(p.a)
      [] p.fam = "semifor"        -> SemiForSource(p.a)
      [] p.fam = "push"           -> PushSource(p.a, p.b)
      [] p.fam = "importbad"      -> ImportBadSource(p.a)
      [] p.fam = "import"         -> ImportSource(p.a)
      [] p.fam = "dot"            -> DotSource(p.a, p.b)
      [] p.fam = "dotget"         -> DotGetSource(p.a)
      [] p.fam = "dotset"         -> DotSetSource(p.a, p.b)
      [] p.fam = "divzero"        -> DivZeroSource(p.a, p.b)
      [] p.fam = "breakif"        -> BreakIfSource(p.a)
      [] p.fam \in CompoundFamilies -> CompoundSource(p.fam, p.a)
      [] p.fam = "concat"         -> ConcatSource(p.a, p.b)
      [] p.fam = "returnop"       -> ReturnOpSource(p.a)
      [] p.fam = "returnnest"     -> ReturnNestSource(p.a, p.b)
      [] p.fam = "importerr"      -> ImportErrSource(p.a)
      [] p.fam = "paramerr"       -> ParamErrSource(p.a, p.b)
      [] p.fam = "continueif"     -> ContinueIfSource(p.a)
      [] p.fam = "modzero"        -> ModZeroSource(p.a, p.b)
      [] p.fam = "hashorder"      -> HashOrderSource(p.a)
      [] p.fam = "hashkey"        -> HashKeySource(p.a)
      [] p.fam = "hashkeyfresh"   -> HashKeyFreshSource(p.a)
      [] p.fam = "constinc"       -> ConstIncSource(p.a)
      [] p.fam = "constalias"     -> ConstAliasSource(p.a)
      [] p.fam = "aliasinc"       -> AliasIncSource(p.a)
      [] p.fam = "constassign"    -> ConstAssignSource(p.a)
      [] p.fam = "inttimesstring" -> IntTimesStringSource(p.a)
      [] p.fam = "stringtimesneg" -> StringTimesNegSource(p.a)
      [] p.fam = "inttimesarray"  -> IntTimesArraySource(p.a)
      [] p.fam = "emptybody"      -> EmptyBodySource(p.a)
      [] p.fam = "fewargs"        -> FewArgsSource(p.a)
      [] p.fam = "moreargs"       -> MoreArgsSource(p.a)
      [] p.fam = "setframes"      -> SetFramesSource(p.a)
      [] p.fam = "setnearest"     -> SetNearestSource(p.a)
      [] p.fam = "forcount"       -> ForCountSource(p.a)
      [] p.fam = "whilelet"       -> WhileLetSource(p.a)
      [] p.fam = "callorder"      -> CallOrderSource(p.a)
      [] p.fam = "callerr"        -> CallErrSource(p.a)
      [] p.fam = "calleeerr"      -> CalleeErrSource(p.a)
      [] p.fam = "hasherr"        -> HashErrSource(p.a)
      [] p.fam = "arrayorder"     -> ArrayOrderSource(p.a)
      [] p.fam = "arrayerr"       -> ArrayErrSource(p.a)
      [] OTHER                    -> <<>>

\* the lines the scanner yields; a StartWithString input is one line
Lines(p) ==
    CASE p.fam = "replbad" -> <<ReplBadLine1(p.a), ReplBadLine2(p.b), ReplBadLine3>>
      [] OTHER             -> <<Source(p)>>

\* the files import can read: path -> contents
Files(p) ==
    CASE p.fam = "importbad" -> (ModulePath :> ImportBadModule(p.b))
      [] p.fam = "import"    -> (ModulePath :> ImportModule(p.b))
      [] p.fam = "importerr" -> (ModulePath :> ImportErrModule(p.b))
      [] OTHER               -> <<>>

-----------------------------------------------------------------------------
(* repl.StartWithString(out, input): the input is parsed statement by      *)
(* statement (ParseProgram); with parser errors they are written out and   *)
(* nothing is evaluated; without, the program is evaluated in the          *)
(* environment initEnv built, statement by statement (evalProgram), and    *)
(* the result is written out.                                              *)

initEnv ==
    LET env == <<NewEnvironment>>
        wd  == Set(env, 1, WORKING_DIR, String(<<"/", "w">>)).fs
    IN Set(wd, 1, INSTALL_DIR, String(<<"/", "i">>)).fs

NoProgram == [fam |-> "none", a |-> 0, b |-> 0]
NoInspect == [t |-> "nil", n |-> 0, s |-> <<>>]

EvalInit ==
    /\ prog \in Programs
    /\ line = 1
    /\ parser = ParserNew(LexerNew(Lines(prog)[1]))
    /\ program = <<>>
    /\ pc = 1
    /\ status = "run"
    /\ frames = initEnv
    /\ cells = <<>>
    /\ heap = EmptyHeap
    /\ result = nil
    /\ hist = <<>>
    /\ out = <<>>

EvalIdle ==
    /\ prog = NoProgram
    /\ line = 0
    /\ parser = ParserNew(LexerNew(<<>>))
    /\ program = <<>>
    /\ pc = 0
    /\ status = "idle"
    /\ frames = <<>>
    /\ cells = <<>>
    /\ heap = EmptyHeap
    /\ result = nil
    /\ hist = <<>>
    /\ out = <<>>

Parsed == curTokenIs(parser, "EOF")

\* The parser's lexer is where `ahead` takes it to be, so that what the
\* parser takes from `ahead` is what NextToken returns.
AheadIsNextToken ==
    /\ parser.l = lexerAt(parser.l, parser.l.position)
    /\ NextToken(parser.l) = IF parser.l.position \in DOMAIN parser.ahead
                             THEN parser.ahead[parser.l.position]
                             ELSE atEndOfInput(parser.l)

\* One turn of ParseProgram's loop.  The integers the parser allocated are
\* the first cells of the heap the evaluator will work on.
ParseProgramStep ==
    /\ status = "run"
    /\ ~Parsed
    /\ \E stmt \in {parseStatement(parser)} :
          /\ parser' = nextToken(stmt.p)
          /\ program' = Append(program, stmt.node)
          /\ cells' = stmt.p.ints
    /\ UNCHANGED <<prog, line, pc, status, frames, heap, result, hist, out>>

\* if len(p.Errors()) != 0 { printParserErrors(out, p.Errors()); return }
PrintParserErrors ==
    /\ status = "run"
    /\ Parsed
    /\ parser.errors # <<>>
    /\ status' = "rejected"
    /\ out' = parser.errors
    /\ UNCHANGED <<prog, line, parser, program, pc, frames, cells, heap, result, hist>>

\* the orders the Go runtime may range over the maps of one statement in
RangeOrders == [1..MaxRanges -> Permutations(1..MaxPairs)]

\* One turn of evalProgram's loop: statement pc is evaluated in the
\* top-level environment (frame 1).  A ReturnValue or an Error ends the loop.
EvalProgramStep ==
    /\ status = "run"
    /\ Parsed
    /\ parser.errors = <<>>
    /\ pc <= Len(program)
    /\ \E ranges \in RangeOrders :
       \E r \in {Eval(program[pc], 1,
                      [frames |-> frames, cells |-> cells, heap |-> heap,
                       files |-> Files(prog), ranges |-> ranges,
                       abort |-> ""])} :
          /\ frames' = r.st.frames
          /\ cells' = r.st.cells
          /\ heap' = r.st.heap
          /\ hist' = Append(hist, Inspect(r.v, r.st.cells))
          /\ IF r.st.abort # ""
             THEN /\ status' = r.st.abort
                  /\ result' = nil
                  /\ pc' = pc
             ELSE IF r.v.t = "RETURN_VALUE"
             THEN /\ status' = status
                  /\ result' = r.v.v
                  /\ pc' = Len(program) + 1
             ELSE IF r.v.t = "ERROR"
             THEN /\ status' = status
                  /\ result' = r.v
                  /\ pc' = Len(program) + 1
             ELSE /\ status' = status
                  /\ result' = r.v
                  /\ pc' = pc + 1
    /\ UNCHANGED <<prog, line, parser, program, out>>

\* if evaluated != nil && evaluated.Type() != NULL_OBJ { io.WriteString(out, ...) }
PrintResult ==
    /\ status = "run"
    /\ Parsed
    /\ parser.errors = <<>>
    /\ pc > Len(program)
    /\ status' = "done"
    /\ out' = IF result.t \notin {"nil", "NULL"}
              THEN Append(out, Inspect(result, cells))
              ELSE out
    /\ UNCHANGED <<prog, line, parser, program, pc, frames, cells, heap, result, hist>>

\* repl.Start's loop: the line before has been executed (executeLine
\* returned, with or without parser errors), scanner.Scan() yields the next
\* line and executeLine lexes and parses it anew; env is the same.
ReadLine ==
    /\ status \in {"done", "rejected"}
    /\ line < Len(Lines(prog))
    /\ line' = line + 1
    /\ parser' = [ParserNew(LexerNew(Lines(prog)[line + 1])) EXCEPT !.ints = cells]
    /\ program' = <<>>
    /\ pc' = 1
    /\ status' = "run"
    /\ result' = nil
    /\ UNCHANGED <<prog, frames, cells, heap, hist, out>>

-----------------------------------------------------------------------------
(* Integer division on its own: evalIntegerInfixExpression applied to two  *)
(* Integers x and y, once with "/" and once with "%".                      *)

ArithInit ==
    /\ ax \in -MaxInt..MaxInt
    /\ ay \in -MaxInt..MaxInt
    /\ aq = NoInspect
    /\ am = NoInspect

ArithIdle ==
    /\ ax = 0
    /\ ay = 0
    /\ aq = NoInspect
    /\ am = NoInspect

ArithOperands ==
    [frames |-> <<>>, cells |-> <<ax, ay>>, heap |-> EmptyHeap, files |-> <<>>,
     ranges |-> <<>>, abort |-> ""]

Divide ==
    /\ aq = NoInspect
    /\ LET r == evalIntegerInfixExpression(<<"/">>, Integer(1), Integer(2), ArithOperands)
       IN aq' = Inspect(r.v, r.st.cells)
    /\ UNCHANGED <<ax, ay, am>>

Modulo ==
    /\ am = NoInspect
    /\ LET r == evalIntegerInfixExpression(<<"%">>, Integer(1), Integer(2), ArithOperands)
       IN am' = Inspect(r.v, r.st.cells)
    /\ UNCHANGED <<ax, ay, aq>>

-----------------------------------------------------------------------------
(* The lexer on its own: every input over LexAlphabet of at most MaxLexLen *)
(* characters is drained token by token, up to EOF and MaxEof calls more.  *)

LexAlphabet == {"a", "1", " ", "\"", "<", ">", "=", "/", "*"}

LexInputs == UNION {[1..n -> LexAlphabet] : n \in 0..MaxLexLen}

\* the texts of block comments: no `*/` inside
CommentAlphabet == {"a", " ", "/", "*"}

CommentTexts ==
    {c \in UNION {[1..n -> CommentAlphabet] : n \in 0..MaxComment} :
        \A i \in 1..(Len(c) - 1) : ~(c[i] = "*" /\ c[i + 1] = "/")}

\* a /*c*/ 1
Commented(c) == <<"a", " ", "/", "*">> \o c \o <<"*", "/", " ", "1">>

\* a /*c        (the comment is never closed)
Unterminated(c) == <<"a", " ", "/", "*">> \o c

CommentInputs ==
    {Commented(c) : c \in CommentTexts} \cup {Unterminated(c) : c \in CommentTexts}

LexInit ==
    /\ lexer \in {LexerNew(input) : input \in LexInputs \cup CommentInputs}
    /\ toks = <<>>
    /\ recon = <<>>

LexIdle ==
    /\ lexer = LexerNew(<<>>)
    /\ toks = <<>>
    /\ recon = <<>>

Eofs == Cardinality({i \in 1..Len(toks) : toks[i].Type = "EOF"})

Min(a, b) == IF a < b THEN a ELSE b

\* The text a call of NextToken skipped: what lies between the position the
\* lexer stood at and the position the token starts at (positions run past
\* the end of the input once it is exhausted).
Skipped(input, from, to) ==
    IF from >= Len(input) THEN <<>> ELSE Slice(input, from, Min(to, Len(input)))

\* tok := l.NextToken()
LexStep ==
    /\ Eofs <= MaxEof
    /\ LET r == NextToken(lexer)
       IN /\ lexer' = r.l
          /\ toks' = Append(toks, r.tok)
          /\ recon' = recon \o Skipped(lexer.input, lexer.position, r.start)
                            \o r.tok.Literal

-----------------------------------------------------------------------------
(* Specifications *)

Init == EvalInit /\ ArithIdle /\ LexIdle

Next ==
    \/ ParseProgramStep /\ UNCHANGED <<arithVars, lexVars>>
    \/ PrintParserErrors /\ UNCHANGED <<arithVars, lexVars>>
    \/ EvalProgramStep /\ UNCHANGED <<arithVars, lexVars>>
    \/ PrintResult /\ UNCHANGED <<arithVars, lexVars>>
    \/ ReadLine /\ UNCHANGED <<arithVars, lexVars>>

Spec == Init /\ [][Next]_vars

ArithSpecInit == ArithInit /\ EvalIdle /\ LexIdle

ArithNext ==
    \/ Divide /\ UNCHANGED <<evalVars, lexVars>>
    \/ Modulo /\ UNCHANGED <<evalVars, lexVars>>

SpecArith == ArithSpecInit /\ [][ArithNext]_vars

LexSpecInit == LexInit /\ EvalIdle /\ ArithIdle

LexNext == LexStep /\ UNCHANGED <<evalVars, arithVars>>

SpecLex == LexSpecInit /\ [][LexNext]_vars

-----------------------------------------------------------------------------
(* Properties *)

IntegerResult(n) == [t |-> "INTEGER", n |-> n, s |-> <<>>]
Finished == status = "done"

RECURSIVE Fibonacci(_)
Fibonacci(n) == IF n < 2 THEN n ELSE Fibonacci(n - 1) + Fibonacci(n - 2)

\* C1: with f the recursive Fibonacci function declared at top level, the
\* program `...; f(a);` ends with the a-th Fibonacci number as its result.
C1_FibonacciResult ==
    (prog.fam = "fib" /\ Finished) =>
        Inspect(result, cells) = IntegerResult(Fibonacci(prog.a))

\* The programs in which no function body assigns or declares anything
\* outside its own call frame.
BindingOnlyFamilies == {"fib", "shadow", "fresh", "dyn"}

\* C2: a top-level call statement of a program whose functions only read
\* leaves every frame that existed before the call as it was: parameter
\* binding creates or changes no binding of the captured chain.
C2_ParametersBoundInCallFrameOnly ==
    [][(/\ prog.fam \in BindingOnlyFamilies
        /\ hist' # hist
        /\ program[pc].k = "ExpressionStatement"
        /\ program[pc].Expression.k = "CallExpression")
       => \A e \in 1..Len(frames) : frames'[e] = frames[e]]_vars

ConstFamilies == {"const", "constfn", "constnest", "constop"}
ConstBinding == frames[1].store[<<"k">>]

\* C3: assigning to the constant k, from the declaring frame or from a
\* nested one, gives the Error "cannot assign to constant 'k'" and leaves k
\* bound to its first value, read-only.
C3_ConstantAssignmentRejected ==
    (prog.fam \in ConstFamilies /\ pc > 1) =>
        /\ ConstBinding = EnvValue(Integer(1), TRUE)
        /\ cells[1] = prog.a
        /\ Finished => /\ Len(hist) = Len(program)
                       /\ result = newError(<<"cannot assign to constant '%s'", <<"k">>>>)

C3_Witness ==
    /\ prog.fam = "constnest"
    /\ prog.a # prog.b
    /\ Finished
    /\ result.t = "ERROR"
    /\ Len(frames) = 3

\* C4: the k-th call of the counter closure returns the initial i plus k.
C4_CounterCounts ==
    prog.fam \in {"counter", "factory"} =>
        \A j \in 1..Len(hist) :
            j > 2 => hist[j] = IntegerResult(prog.a + (j - 2))

C4_Witness ==
    /\ prog.fam = "factory"
    /\ prog.b >= 3
    /\ Finished
    /\ Len(hist) = prog.b + 2
    /\ out = <<IntegerResult(prog.a + prog.b)>>

\* C5: every integer literal of the program holds, at every point of the
\* evaluation, the value the parser gave it.
C5_LiteralsKeepTheirValue ==
    (Parsed /\ parser.errors = <<>>) =>
        \A l \in 1..Len(parser.ints) : cells[l] = parser.ints[l]

\* C6: two calls of the same function with the same (no) arguments, nothing
\* it reads being assigned in between, return equal values.
C6_SameCallSameResult ==
    (prog.fam \in {"twice", "predec"} /\ Len(hist) = 3) => hist[2] = hist[3]

\* C7: no binding of any frame holds a ReturnValue, Break, Continue or Error.
C7_NoSentinelIsBound ==
    \A e \in 1..Len(frames) : \A n \in Names :
        frames[e].store[n].ok =>
            frames[e].store[n].Value.t \notin {"RETURN_VALUE", "BREAK", "CONTINUE", "ERROR"}

\* The sources that are one well-formed statement of each form followed by
\* one `;` (semiwhile: the statement between two others).
SemicolonFamilies == {"semilet", "semiconst", "semireturn", "semiexpression",
                      "semibreak", "semicontinue", "semiwhile", "semifor"}

\* C8: a source whose statements each end in one `;` parses without error,
\* whatever the statement form, and `let i = 0; while (i < a) { i = i + 1 }; i;`
\* evaluates to a.
C8_TrailingSemicolonAccepted ==
    (prog.fam \in SemicolonFamilies /\ Parsed) =>
        /\ parser.errors = <<>>
        /\ (prog.fam = "semiwhile" /\ Finished) => out = <<IntegerResult(prog.a)>>

\* C9: once NextToken has returned EOF, the token literals, interleaved with
\* the text the lexer skipped between them, spell the input.
C9_LiteralsRebuildInput == Eofs > 0 => recon = lexer.input

\* C10: for all Integers x and non-zero y, (x / y) * y + (x % y) = x.
C10_DivModIdentity ==
    (ay # 0 /\ aq # NoInspect /\ am # NoInspect) =>
        /\ aq.t = "INTEGER"
        /\ am.t = "INTEGER"
        /\ aq.n * ay + am.n = ax

C10_Witness ==
    /\ ax < 0
    /\ ay < 0
    /\ aq.t = "INTEGER"
    /\ am.t = "INTEGER"
    /\ am.n > 0

\* the object a top-level name is bound to
Bound(name) == frames[1].store[name].Value

\* the integers held by the elements of the array object arr
ElementValues(arr) ==
    [j \in 1..heap.arrays[arr.p].len |-> cells[Elements(heap, arr)[j].p]]

\* C11: after `let r = push(x, a)` on the array x == [3, 1, 2] that b earlier
\* pushes of 7 have grown, y being another name of x: r, x and y are one
\* object, whose elements are the old ones followed by a; len read through
\* y is the old length plus 1 and equals len(r), and r[n], y[n] are a.
C11_PushAppendsInPlace ==
    (prog.fam = "push" /\ Finished) =>
        /\ Bound(<<"r">>) = Bound(<<"x">>)
        /\ Bound(<<"y">>) = Bound(<<"x">>)
        /\ ElementValues(Bound(<<"y">>))
              = <<3, 1, 2>> \o [j \in 1..prog.b |-> 7] \o <<prog.a>>
        /\ SubSeq(hist, Len(hist) - 7, Len(hist))
              = <<IntegerResult(3 + prog.b), [t |-> "ARRAY", n |-> 0, s |-> <<>>],
                  IntegerResult(4 + prog.b), IntegerResult(4 + prog.b),
                  IntegerResult(prog.a), IntegerResult(prog.a),
                  IntegerResult(3), IntegerResult(IF prog.b = 0 THEN 2 ELSE 7)>>

\* a push that had to move the elements to a larger backing array
C11_Witness ==
    /\ prog.fam = "push"
    /\ prog.b = 2
    /\ prog.a = 1
    /\ Finished
    /\ heap.arrays[Bound(<<"y">>).p].len = 6
    /\ Len(heap.backs) = 2

\* C12: a text with parser errors is never evaluated.  In the session
\* `let x = a;` / `x = b; let = 1;` / `x;` the second line evaluates nothing
\* (x keeps a, one statement has been evaluated so far) and the third line
\* is read and gives a; `import("m")` of the module `let k = [b]; let = 1;`
\* gives an Error starting "parsing file" and makes no environment and no
\* array.
C12_ParserErrorsStopEvaluation ==
    /\ (Parsed /\ parser.errors # <<>>) => (pc = 1 /\ result = nil)
    /\ (prog.fam = "replbad" /\ line = 2) =>
          /\ Len(hist) = 1
          /\ Len(frames) = 1
          /\ cells[Bound(<<"x">>).p] = prog.a
          /\ Parsed => parser.errors # <<>>
          /\ status # "done"
    /\ (prog.fam = "replbad" /\ line = 3 /\ Finished) =>
          /\ Len(out) > 1
          /\ out[Len(out)] = IntegerResult(prog.a)
          /\ Len(hist) = 2
    /\ (prog.fam = "importbad" /\ Finished) =>
          /\ result.t = "ERROR"
          /\ result.msg[1] = "parsing file %s failed: %s"
          /\ result.msg[2] = ModulePath
          /\ Len(frames) = 1
          /\ heap = EmptyHeap
          /\ cells[Bound(<<"x">>).p] = prog.a

C12_Witness ==
    /\ prog.fam = "replbad"
    /\ prog.a # prog.b
    /\ line = 3
    /\ Finished
    /\ out[Len(out)] = IntegerResult(prog.a)

\* the names bound in the top-level environment
BoundNames == {n \in Names : frames[1].store[n].ok}

\* the keys of the hash object h, as strings
Keys(h) == {hk.Value : hk \in DOMAIN heap.hashes[h.p]}

\* the value the hash object h holds under the string key
Field(h, key) == heap.hashes[h.p][HashKey(String(key))].Value

\* C13: in `let x = a; let r = import("m"); let s = import("m"); r.k; s.k; x;`
\* with the module `let k = b; let f = fn(y) { y }; f(k);`, r and s are
\* hashes whose keys are the module's top-level names k and f, k being b in
\* both, and the importing environment binds x, r and s beside the two
\* directories, x being a.
C13_ImportExposesTopLevelNames ==
    (prog.fam = "import" /\ Finished) =>
        /\ Keys(Bound(<<"r">>)) = {<<"k">>, <<"f">>}
        /\ Keys(Bound(<<"s">>)) = {<<"k">>, <<"f">>}
        /\ cells[Field(Bound(<<"r">>), <<"k">>).p] = prog.b
        /\ cells[Field(Bound(<<"s">>), <<"k">>).p] = prog.b
        /\ BoundNames = {<<"x">>, <<"r">>, <<"s">>, WORKING_DIR, INSTALL_DIR}
        /\ cells[Bound(<<"x">>).p] = prog.a
        /\ SubSeq(hist, 4, 6)
             = <<IntegerResult(prog.b), IntegerResult(prog.b), IntegerResult(prog.a)>>

NullResult == [t |-> "NULL", n |-> 0, s |-> <<>>]

\* C14: in `let h = {"a": a}; let g = h; h.k = b; h.k; h["k"]; g.k; g.a;
\* h.m; h.a = h.a + 1; g["a"];` the reads of k give b through h and through
\* g, by dot and by index, a keeps its value until it is assigned, the
\* absent m reads as Null; `x.k` and `x.k = b` on the Integer x give the
\* Error "not a hash" and leave x as it was.
C14_DotAssignmentStores ==
    /\ (prog.fam = "dot" /\ Finished) =>
          /\ SubSeq(hist, 3, 10)
               = <<IntegerResult(prog.b), IntegerResult(prog.b), IntegerResult(prog.b),
                   IntegerResult(prog.b), IntegerResult(prog.a), NullResult,
                   IntegerResult(prog.a + 1), IntegerResult(prog.a + 1)>>
          /\ Bound(<<"g">>) = Bound(<<"h">>)
          /\ Keys(Bound(<<"h">>)) = {<<"a">>, <<"k">>}
          /\ cells[Field(Bound(<<"g">>), <<"k">>).p] = prog.b
    /\ (prog.fam \in {"dotget", "dotset"} /\ Finished) =>
          /\ result = newError(<<"not a hash: %s", "INTEGER">>)
          /\ cells[Bound(<<"x">>).p] = prog.a
          /\ heap = EmptyHeap

C14_Witness ==
    /\ prog.fam = "dot"
    /\ prog.a # prog.b
    /\ Finished
    /\ Len(hist) = 10
    /\ Keys(Bound(<<"g">>)) = {<<"a">>, <<"k">>}

\* C15: in `let x = a - b; x / 0;` the result is the Error "division by
\* zero", in `let x = a - b; x % 0;` the Error "modulus by zero"; x keeps
\* a - b and no Integer beside the literals and x has been made.
C15_DivisionByZeroIsAnError ==
    (prog.fam \in {"divzero", "modzero"} /\ Finished) =>
        /\ result = newError(IF prog.fam = "divzero"
                             THEN <<"division by zero">>
                             ELSE <<"modulus by zero">>)
        /\ out = <<Inspect(result, cells)>>
        /\ cells[Bound(<<"x">>).p] = prog.a - prog.b
        /\ Len(cells) = Len(parser.ints) + 1

C15_Witness ==
    /\ prog.fam = "modzero"
    /\ prog.a < prog.b
    /\ Finished
    /\ result.t = "ERROR"

\* C16: a break or continue inside an if block of a while body ends the
\* iteration there.  `let i = 0; while (i < a) { i = i + 1; if (i == 2)
\* { break; i = 9 } } i;` gives the smaller of a and 2, and in `let i = 0;
\* let k = 0; while (i < a) { i = i + 1; if (i == 2) { continue; k = 9 }
\* k = k + 1 } k;` k counts the iterations but the second; the while
\* statement itself gives Null.
C16_BreakAndContinueEndTheIteration ==
    /\ (prog.fam = "breakif" /\ Finished) =>
          /\ out = <<IntegerResult(IF prog.a < 2 THEN prog.a ELSE 2)>>
          /\ hist[2] = NullResult
    /\ (prog.fam = "continueif" /\ Finished) =>
          /\ out = <<IntegerResult(IF prog.a < 2 THEN prog.a ELSE prog.a - 1)>>
          /\ hist[3] = NullResult

\* C17: a runtime Error ends the program with that Error.  The module
\* `let k = b / 0; let y = 1;` raises "division by zero", so `let r =
\* import("m"); a;` ends with that Error after one statement; binding the
\* parameter k of `const k = a; let f = fn(k) { k }; f(b);` raises "cannot
\* assign to constant 'k'", so the program ends with that Error.
C17_ErrorEndsTheProgram ==
    /\ (prog.fam = "importerr" /\ Finished) =>
          /\ result = newError(<<"division by zero">>)
          /\ Len(hist) = 1
    /\ (prog.fam = "paramerr" /\ Finished) =>
          result = newError(<<"cannot assign to constant '%s'", <<"k">>>>)

\* C18: a return inside nested blocks of a function body ends the call with
\* its value.  With f == fn() { let i = 0; while (i < 3) { i = i + 1;
\* if (i == 2) { return a } } 9 } and g == fn() { f(); b }, f() gives a and
\* g() gives b; with f == fn() { let y = 1 + if (true) { return a }; a + 1 },
\* f() gives a.
C18_ReturnEndsTheCall ==
    /\ (prog.fam = "returnnest" /\ Finished) =>
          /\ hist[3] = IntegerResult(prog.a)
          /\ hist[4] = IntegerResult(prog.b)
          /\ result.t = "INTEGER"
    /\ (prog.fam = "returnop" /\ Finished) =>
          /\ hist[2] = IntegerResult(prog.a)
          /\ result.t = "INTEGER"

\* C19: the array `a + [a]` shares no storage with a.  In `let a = [1, 2, 3];
\* let c = a + [a]; push(a, b); c[3];` the push changes a only: c is still
\* [1, 2, 3, a], a is [1, 2, 3, b], and the program gives a.
C19_ConcatenationIsFresh ==
    (prog.fam = "concat" /\ Finished) =>
        /\ ElementValues(Bound(<<"a">>)) = <<1, 2, 3, prog.b>>
        /\ ElementValues(Bound(<<"c">>)) = <<1, 2, 3, prog.a>>
        /\ out = <<IntegerResult(prog.a)>>

\* the value of x OP 2
CompoundValue(fam, x) ==
    CASE fam = "addassign" -> x + 2
      [] fam = "subassign" -> x - 2
      [] fam = "mulassign" -> x * 2
      [] fam = "divassign" -> x \div 2
      [] fam = "modassign" -> x % 2
      [] fam = "shlassign" -> x * 4
      [] fam = "shrassign" -> x \div 4
      [] fam = "powassign" -> x * x

\* C20: `let x = a; x OP= 2; x;` parses without error, its second statement
\* being Assignment(x, Infix(OP, x, 2)), and gives the value of a OP 2, for
\* OP= among += -= *= /= %= <<= >>= **=.
C20_CompoundAssignment ==
    /\ (prog.fam \in CompoundFamilies /\ Parsed) =>
          /\ parser.errors = <<>>
          /\ Len(program) = 3
          /\ program[2] = ExpressionStatement(
                              Assignment(Identifier(<<"x">>),
                                         InfixExpression(CompoundOperator(prog.fam),
                                                         Identifier(<<"x">>),
                                                         IntegerLiteral(2))))
    /\ (prog.fam \in CompoundFamilies /\ Finished) =>
          out = <<IntegerResult(CompoundValue(prog.fam, prog.a))>>

\* the integer a top-level name is bound to
IntegerBound(name) == cells[Bound(name).p]

\* C21: literals evaluate their elements in source order.  After
\* `let h = {"k": x = x * 2 + 1, "k": x = x * 2 + 2}` with x == a, x and h.k
\* are 4a + 4 (first pair first, second pair's value stored); after
\* `let h = {"a": x / 0, "b": x = 9}` x is still a; the array literals
\* [x = x * 2 + 1, x = x * 2 + 2] and [x / 0, x = 9] behave the same way.
C21_LiteralsEvaluateInSourceOrder ==
    /\ (prog.fam = "hashorder" /\ Finished) =>
          /\ hist[3] = IntegerResult(4 * prog.a + 4)
          /\ hist[4] = IntegerResult(4 * prog.a + 4)
    /\ (prog.fam = "arrayorder" /\ Finished) =>
          /\ hist[3] = IntegerResult(4 * prog.a + 4)
          /\ hist[4] = IntegerResult(2 * prog.a + 1)
          /\ hist[5] = IntegerResult(4 * prog.a + 4)
    /\ (prog.fam \in {"hasherr", "arrayerr"} /\ Finished) =>
          /\ result = newError(<<"division by zero">>)
          /\ IntegerBound(<<"x">>) = prog.a

\* the array-literal half of C21 alone
ArrayLiteralsEvaluateInSourceOrder ==
    /\ (prog.fam = "arrayorder" /\ Finished) =>
          /\ hist[3] = IntegerResult(4 * prog.a + 4)
          /\ hist[4] = IntegerResult(2 * prog.a + 1)
          /\ hist[5] = IntegerResult(4 * prog.a + 4)
    /\ (prog.fam = "arrayerr" /\ Finished) =>
          /\ result = newError(<<"division by zero">>)
          /\ IntegerBound(<<"x">>) = prog.a

\* C22: a call evaluates its callee, then its arguments from left to right,
\* and stops at the first Error.  f(x = x + 1, x = x * 2) with x == a binds
\* a + 1 and 2(a + 1) and leaves x at 2(a + 1); f(x / 0, x = 9) is the Error
\* "division by zero" and leaves x at a (the second argument is not
\* evaluated and f's body `x = 7` is not run); y(x = 9) with y unbound is
\* the Error of the callee and leaves x at a.
C22_ArgumentsLeftToRight ==
    /\ (prog.fam = "callorder" /\ Finished) =>
          /\ hist[3] = IntegerResult(12 * (prog.a + 1))
          /\ hist[5] = IntegerResult(2 * (prog.a + 1))
    /\ (prog.fam = "callerr" /\ Finished) =>
          /\ result = newError(<<"division by zero">>)
          /\ Len(hist) = 3
          /\ IntegerBound(<<"x">>) = prog.a
    /\ (prog.fam = "calleeerr" /\ Finished) =>
          /\ result = newError(<<"identifier not found: ", <<"y">>>>)
          /\ IntegerBound(<<"x">>) = prog.a

C22_Witness ==
    /\ prog.fam = "callerr"
    /\ prog.a = 2
    /\ Finished
    /\ result = newError(<<"division by zero">>)
    /\ IntegerBound(<<"x">>) = 2

\* C23: each iteration of a while body has a frame of its own.
\* `let i = 0; let s = 0; while (i < a) { let k = i * 2; s = s + k;
\* i = i + 1; } s; i; k;` ends its loop with Null after a iterations (no
\* redeclaration error for k), s is then a(a - 1) and i is a, and reading k
\* after the loop is the Error "identifier not found: k".
C23_WhileBodyHasItsOwnFrame ==
    (prog.fam = "whilelet" /\ Finished) =>
        /\ Len(hist) = 6
        /\ hist[3] = NullResult
        /\ hist[4] = IntegerResult(prog.a * (prog.a - 1))
        /\ hist[5] = IntegerResult(prog.a)
        /\ result = newError(<<"identifier not found: ", <<"k">>>>)
        /\ ~frames[1].store[<<"k">>].ok
        /\ IntegerBound(<<"s">>) = prog.a * (prog.a - 1)
        /\ IntegerBound(<<"i">>) = prog.a

C23_Witness ==
    /\ prog.fam = "whilelet"
    /\ prog.a = 3
    /\ Finished
    /\ hist[4] = IntegerResult(6)
    /\ ~frames[1].store[<<"k">>].ok

\* C24: `let s = 0; for (let i = 0; i < a; i = i + 1) { s = s + 1; } s;`
\* runs the body exactly a times: the for statement's value is Null and s is
\* a afterwards.
C24_ForRunsBodyNTimes ==
    (prog.fam = "forcount" /\ Finished) =>
        /\ Len(hist) = 3
        /\ hist[2] = NullResult
        /\ hist[3] = IntegerResult(prog.a)

\* the tokens of `a 1`, up to the first EOF
UncommentedTokens ==
    <<Token("IDENT", <<"a">>), Token("INT", <<"1">>), Token("EOF", <<>>)>>

\* C25: a block comment is skipped as a whole.  Once the lexer has returned
\* EOF on `a /*c*/ 1`, c without `*/`, the tokens up to that EOF are those of
\* `a 1`; on `a /*c`, never closed, they are a and EOF; every later token is
\* EOF.
C25_BlockCommentSkipped ==
    Eofs > 0 =>
        /\ (\E c \in CommentTexts : lexer.input = Commented(c)) =>
              /\ Len(toks) >= 3
              /\ SubSeq(toks, 1, 3) = UncommentedTokens
              /\ \A i \in 4..Len(toks) : toks[i].Type = "EOF"
        /\ (\E c \in CommentTexts : lexer.input = Unterminated(c)) =>
              /\ toks[1] = Token("IDENT", <<"a">>)
              /\ \A i \in 2..Len(toks) : toks[i].Type = "EOF"

\* C25 for the comments whose text is not empty
NonEmptyBlockCommentSkipped ==
    Eofs > 0 =>
        /\ (\E c \in CommentTexts : c # <<>> /\ lexer.input = Commented(c)) =>
              /\ Len(toks) >= 3
              /\ SubSeq(toks, 1, 3) = UncommentedTokens
              /\ \A i \in 4..Len(toks) : toks[i].Type = "EOF"
        /\ (\E c \in CommentTexts : lexer.input = Unterminated(c)) =>
              /\ toks[1] = Token("IDENT", <<"a">>)
              /\ \A i \in 2..Len(toks) : toks[i].Type = "EOF"

\* C26: Set never creates a binding, overwrites in the nearest frame that
\* holds the name, and declarations add to the innermost frame.  After
\* `let x = a; let f = fn(m) { let y = m * 2; x = y + 1; y }; f(x); x;`
\* the top-level frame binds no m (m was bound in no frame when the call
\* assigned it) and no y, the call's frame binds y, and x is 2a + 1; after
\* `let x = a; let f = fn() { let x = 1; let g = fn() { x = 5 }; g(); x };
\* f(); x;` the x of f's frame is 5 and the top-level x is still a.
C26_SetNeverCreatesABinding ==
    /\ (prog.fam = "setframes" /\ Finished) =>
          /\ ~frames[1].store[<<"m">>].ok
          /\ ~frames[1].store[<<"y">>].ok
          /\ frames[Len(frames)].store[<<"y">>].ok
          /\ IntegerBound(<<"x">>) = 2 * prog.a + 1
    /\ (prog.fam = "setnearest" /\ Finished) =>
          /\ hist[3] = IntegerResult(5)
          /\ hist[4] = IntegerResult(prog.a)
          /\ IntegerBound(<<"x">>) = prog.a

\* C26 without its first part: what Set does to a bound name, and where
\* declarations go
SetOverwritesNearestFrame ==
    /\ (prog.fam = "setframes" /\ Finished) =>
          /\ ~frames[1].store[<<"y">>].ok
          /\ frames[Len(frames)].store[<<"y">>].ok
          /\ IntegerBound(<<"x">>) = 2 * prog.a + 1
    /\ (prog.fam = "setnearest" /\ Finished) =>
          /\ hist[3] = IntegerResult(5)
          /\ hist[4] = IntegerResult(prog.a)
          /\ IntegerBound(<<"x">>) = prog.a

\* C27: a call with too few arguments is an Error and runs nothing of the
\* body; one with too many binds the first and ignores the rest.  In
\* `let x = a; let f = fn(m, n) { x = 9; m }; f(1); x;` the evaluator does
\* not abort, f(1) is an Error and x is still a; `let f = fn(m) { m + 1 };
\* f(a, 7);` is a + 1.
C27_ArgumentCountMismatch ==
    /\ prog.fam = "fewargs" =>
          /\ status # "panic"
          /\ Finished =>
                /\ Len(hist) = 3
                /\ hist[3].t = "ERROR"
                /\ IntegerBound(<<"x">>) = prog.a
    /\ (prog.fam = "moreargs" /\ Finished) =>
          /\ Len(hist) = 2
          /\ hist[2] = IntegerResult(prog.a + 1)

\* the second part of C27 alone
SurplusArgumentsIgnored ==
    (prog.fam = "moreargs" /\ Finished) =>
        /\ Len(hist) = 2
        /\ hist[2] = IntegerResult(prog.a + 1)

OperandKindFamilies ==
    {"inttimesstring", "stringtimesneg", "inttimesarray", "emptybody"}

\* C28: Eval is total.  `x * "s"` and `x * [1]` with x an Integer, `"s" * x`
\* with x zero or negative, and `f() + a` with f a function whose body is
\* empty do not make the evaluator abort, and the object Eval returns for
\* each of their statements is not nil.
C28_EvalIsTotal ==
    prog.fam \in OperandKindFamilies =>
        /\ status # "panic"
        /\ \A i \in 1..Len(hist) : hist[i].t # "nil"

\* C29: the value read from a constant bound to an Integer never changes.
\* `const k = a; k++; k;` reads a; so do `const k = a; let y = k; --y; k;`
\* and `const k = a; let y = k; y = y + 1; y += 1; k;`; and after
\* `let x = a; let y = x; ++x;` y still reads a.
C29_ConstantIntegerKeepsItsValue ==
    /\ (prog.fam = "constinc" /\ Finished) => hist[3] = IntegerResult(prog.a)
    /\ (prog.fam = "constalias" /\ Finished) => hist[4] = IntegerResult(prog.a)
    /\ (prog.fam = "constassign" /\ Finished) => hist[5] = IntegerResult(prog.a)
    /\ (prog.fam = "aliasinc" /\ Finished) => hist[4] = IntegerResult(prog.a)

\* C29 for assignment and compound assignment alone
AssignmentKeepsConstantValue ==
    (prog.fam = "constassign" /\ Finished) =>
        /\ hist[4] = IntegerResult(prog.a + 2)
        /\ hist[5] = IntegerResult(prog.a)

\* C30: the HashKey of an Integer follows its value.  The key held by an
\* Integer is that of its current value; in `let k = a; let h = {a: 7,
\* a + 1: 8}; h[k]; k++; h[k]; --k; --k; h[k];` the three lookups give 7,
\* then 8 (k is a + 1), then Null (k is a - 1, no such key); in
\* `let k = a; let h = {a: 7, a + 1: 8}; k++; h[k];` the lookup gives 8.
C30_HashKeyFollowsTheValue ==
    /\ prog.fam \in {"hashkey", "hashkeyfresh"} =>
          \A p \in DOMAIN heap.keys :
              heap.keys[p] = [Type |-> "INTEGER", Value |-> cells[p]]
    /\ (prog.fam = "hashkey" /\ Finished) =>
          /\ hist[3] = IntegerResult(7)
          /\ hist[5] = IntegerResult(8)
          /\ hist[8] = NullResult
    /\ (prog.fam = "hashkeyfresh" /\ Finished) =>
          hist[4] = IntegerResult(8)

\* C30 up to the first in-place update of an Integer whose key has been
\* computed
HashKeyOfTheFirstValue ==
    /\ (prog.fam = "hashkey" /\ Len(hist) >= 3) => hist[3] = IntegerResult(7)
    /\ (prog.fam = "hashkeyfresh" /\ Finished) =>
          /\ hist[4] = IntegerResult(8)
          /\ \A p \in DOMAIN heap.keys :
                 heap.keys[p] = [Type |-> "INTEGER", Value |-> cells[p]]

=============================================================================
